---- MODULE Spec2Model ----
(***************************************************************************)
(* Discrete-event propagation engine (RLNC vs GossipSub): GF(2^8) tables,  *)
(* the incremental rank tracker, the MinHeap event queue and the engine's  *)
(* initPropagation / advanceTo / clearEngine.                              *)
(*                                                                         *)
(* Conventions.  Simulated times are integers in hundredths of a           *)
(* millisecond (every delay of the engine is a multiple of 0.1 ms; the     *)
(* topology generator rounds edge latencies to 0.1 ms, initPropagation     *)
(* takes any).  A PRNG output r in [0,1) is the integer n with             *)
(* r = n / RandDen.  Arrays are 1-indexed sequences; column c of the code  *)
(* is position c+1.  Edge latencies (latencyMs) are held in hundredths of  *)
(* a millisecond, packet loss in percent and the redundancy factor in      *)
(* hundredths.                                                             *)
(***************************************************************************)
EXTENDS Integers, Sequences, FiniteSets, TLC

VARIABLES
    gfA, gfB, gfOut,                 \* operands and result of a gfMul call
    gfSum, gfInverse,                \* results of gfAdd(gfA, gfB) and gfInv(gfA)
    shardArgs, shardCount,           \* k, redundancyFactor, packetLoss and the burst size computed from them
    tracker, prevTracker, rowsSeen, rowsBefore, lastRow, addRet,   \* a stand-alone IncrementalRankTracker
    queue, popped, heapBefore, popLog,                 \* a stand-alone MinHeap
    eng,        \* the engine module's state (and the PRNG of lib/prng.ts)
    store,      \* the caller's topology and parameters
    lastCall,   \* the engine function called last, with its arguments; dirty: the
                \* run's initPropagation found state left by earlier calls
    before,     \* the engine as the last advanceTo found it, with that call's arguments
    before2,    \* the same for the advanceTo before it, when the two follow each other
    shadow,     \* a freshly loaded engine given the same calls as eng since initPropagation
    latest,     \* the metrics object returned by the last advanceTo / getEngineMetrics
    held,       \* the metrics object returned by the call before that, kept by the caller
    lossMoves   \* changes of the caller's packet loss since initPropagation

gfVars   == <<gfA, gfB, gfOut, gfSum, gfInverse>>
rankVars == <<tracker, prevTracker, rowsSeen, rowsBefore, lastRow, addRet>>
heapVars == <<queue, popped, heapBefore, popLog>>
engVars  == <<eng, store, lastCall, before, before2, shadow, latest, held, lossMoves>>
shardVars == <<shardArgs, shardCount>>
vars     == <<gfVars, rankVars, heapVars, engVars, shardVars>>

\* Optional values: None for null / undefined / nothing yet, Some(x) otherwise.
None == <<>>
Some(x) == <<x>>

(***************************************************************************)
(* Bounds of the model.                                                    *)
(***************************************************************************)
MaxK == 2          \* largest dimension of the stand-alone tracker
MaxRows == 3       \* addRow calls on the stand-alone tracker
MaxPush == 4       \* pushes on the stand-alone heap between two clears
MaxFire == 2       \* fireAt values 0..MaxFire of the stand-alone heap

(***************************************************************************)
(* GF(2^8): src/src/lib/prng.ts 44-89                                      *)
(***************************************************************************)
GF_SIZE == 256
PRIMITIVE_POLY == 283     \* 0x11b

Bytes == 0..(GF_SIZE - 1)

\* a ^ b on non-negative integers
RECURSIVE BitXor(_, _)
BitXor(a, b) ==
    IF a = 0 THEN b
    ELSE IF b = 0 THEN a
    ELSE (((a % 2) + (b % 2)) % 2) + 2 * BitXor(a \div 2, b \div 2)

\* x = (x << 1) ^ (x & 0x80 ? PRIMITIVE_POLY : 0); x &= 0xff
TableStep(x) ==
    BitXor(2 * x, IF (x \div 128) % 2 = 1 THEN PRIMITIVE_POLY ELSE 0) % 256

\* n applications of TableStep to x (the test x < 0 is never true: it makes
\* the evaluation of x precede the recursive call)
RECURSIVE StepN(_, _)
StepN(x, n) == IF x < 0 \/ n = 0 THEN x ELSE StepN(TableStep(x), n - 1)

\* The value of x at the start of iteration i of initTables' loop: TableStep
\* applied i times to 1 (in blocks of 16, to keep the evaluation shallow).
RECURSIVE XBlock(_)
XBlock(b) == IF b = 0 THEN 1 ELSE StepN(XBlock(b - 1), 16)

XAt(i) == StepN(XBlock(i \div 16), i % 16)

XValues == [i \in 0..254 |-> XAt(i)]

\* initTables: iteration i writes EXP_TABLE[i] = EXP_TABLE[i+255] = x and
\* LOG_TABLE[x] = i (a later write to the same slot wins); slots never
\* written keep the 0 of a new Uint8Array.
EXP_TABLE == [n \in 0..511 |-> IF n < 510 THEN XValues[n % 255] ELSE 0]

LOG_TABLE ==
    [v \in Bytes |->
        LET at == {i \in 0..254 : XValues[i] = v}
        IN IF v = 0 \/ at = {} THEN 0
           ELSE CHOOSE i \in at : \A j \in at : j <= i]

gfAdd(a, b) == BitXor(a, b)

\* (variant: gfMul that forgets the logarithm of b)
gfMulFirstLogOnly(a, b) ==
    IF a = 0 \/ b = 0 THEN 0
    ELSE EXP_TABLE[LOG_TABLE[a]]

gfMul(a, b) ==
    IF a = 0 \/ b = 0 THEN 0
    ELSE EXP_TABLE[LOG_TABLE[a] + LOG_TABLE[b]]

\* gfInv(0) throws; GfError stands for the thrown Error
GfError == -2

\* (variant: gfInv without the test for 0)
gfInvOfZeroReturns(a) == EXP_TABLE[255 - LOG_TABLE[a]]

\* (variant: gfInv reading EXP_TABLE at the logarithm itself)
gfInvSameExponent(a) ==
    IF a = 0 THEN GfError
    ELSE EXP_TABLE[LOG_TABLE[a]]

gfInv(a) ==
    IF a = 0 THEN GfError
    ELSE EXP_TABLE[255 - LOG_TABLE[a]]

\* Reference: the carry-less product of a and b reduced modulo
\* x^8+x^4+x^3+x+1, by shift-and-add (a*x mod the polynomial is TableStep).
RECURSIVE FieldMul(_, _)
FieldMul(a, b) ==
    IF b = 0 THEN 0
    ELSE BitXor(IF b % 2 = 1 THEN a ELSE 0, FieldMul(TableStep(a), b \div 2))

FieldInv == [a \in 1..255 |-> CHOOSE b \in 1..255 : FieldMul(a, b) = 1]

(***************************************************************************)
(* IncrementalRankTracker: src/src/lib/prng.ts 98-146                      *)
(***************************************************************************)
NewTracker(k) == [k |-> k, pivots |-> [c \in 1..k |-> None], rank |-> 0]

isFullRank(t) == t.rank >= t.k

\* The loop of addRow from column col on, r being the working copy of the row.
RECURSIVE AddRowFrom(_, _, _)
AddRowFrom(t, r, col) ==
    IF col > t.k THEN [t |-> t, ret |-> FALSE, threw |-> FALSE]
    ELSE IF r[col] = 0 THEN AddRowFrom(t, r, col + 1)
    ELSE IF t.pivots[col] # None
    THEN LET p == t.pivots[col]
         IN IF p[col] = 0
            THEN [t |-> t, ret |-> FALSE, threw |-> TRUE]
            ELSE LET factor == gfMul(r[col], gfInv(p[col]))
                     r2 == [j \in 1..t.k |-> gfAdd(r[j], gfMul(factor, p[j]))]
                 IN AddRowFrom(t, r2, col + 1)
    ELSE [t |-> [t EXCEPT !.pivots[col] = r, !.rank = @ + 1],
          ret |-> TRUE, threw |-> FALSE]

\* addRow without "if (r[col] === 0) continue"
RECURSIVE AddRowFromNoZeroSkip(_, _, _)
AddRowFromNoZeroSkip(t, r, col) ==
    IF col > t.k THEN [t |-> t, ret |-> FALSE, threw |-> FALSE]
    ELSE IF t.pivots[col] # None
    THEN LET p == t.pivots[col]
         IN IF p[col] = 0
            THEN [t |-> t, ret |-> FALSE, threw |-> TRUE]
            ELSE LET factor == gfMul(r[col], gfInv(p[col]))
                     r2 == [j \in 1..t.k |-> gfAdd(r[j], gfMul(factor, p[j]))]
                 IN AddRowFromNoZeroSkip(t, r2, col + 1)
    ELSE [t |-> [t EXCEPT !.pivots[col] = r, !.rank = @ + 1],
          ret |-> TRUE, threw |-> FALSE]

addRowNoZeroSkip(t, row) == AddRowFromNoZeroSkip(t, row, 1)

\* addRow with this._rank++ moved ahead of the pivot search
addRowCountsEveryRow(t, row) ==
    LET res == AddRowFrom(t, row, 1)
    IN [res EXCEPT !.t.rank = t.rank + 1]

\* addRow that keeps a row it found dependent in the last pivot slot
addRowKeepsDependentRow(t, row) ==
    LET res == AddRowFrom(t, row, 1)
    IN IF res.ret \/ res.threw \/ t.k = 0 THEN res
       ELSE [res EXCEPT !.t.pivots[t.k] = row]

addRow(t, row) == AddRowFrom(t, row, 1)

trackerReset(t) == NewTracker(t.k)

(***************************************************************************)
(* MinHeap: src/src/simulation/eventQueue.ts                               *)
(***************************************************************************)
NewHeap == [heap |-> <<>>, seqCounter |-> 0]

\* compare without the seq tie-break
compareFireAtOnly(a, b) == a.fireAt - b.fireAt

compare(a, b) ==
    LET d == a.fireAt - b.fireAt
    IN IF d # 0 THEN d ELSE a.seq - b.seq

swap(h, i, j) == [h EXCEPT ![i + 1] = h[j + 1], ![j + 1] = h[i + 1]]

\* h[i+1] is heap[i] of the code.
RECURSIVE bubbleUp(_, _)
bubbleUp(h, i) ==
    IF i > 0
    THEN LET parent == (i - 1) \div 2
         IN IF compare(h[i + 1], h[parent + 1]) < 0
            THEN bubbleUp(swap(h, i, parent), parent)
            ELSE h
    ELSE h

RECURSIVE sinkDown(_, _)
sinkDown(h, i) ==
    LET n == Len(h)
        left == 2 * i + 1
        right == 2 * i + 2
        s1 == IF left < n /\ compare(h[left + 1], h[i + 1]) < 0 THEN left ELSE i
        smallest == IF right < n /\ compare(h[right + 1], h[s1 + 1]) < 0
                    THEN right ELSE s1
    IN IF smallest # i THEN sinkDown(swap(h, i, smallest), smallest) ELSE h

HeapPush(q, event) ==
    LET e == [event EXCEPT !.seq = q.seqCounter]
        h == Append(q.heap, e)
    IN [heap |-> bubbleUp(h, Len(h) - 1), seqCounter |-> q.seqCounter + 1]

\* pop(): the returned event (None for undefined) and the queue afterwards
HeapPop(q) ==
    IF Len(q.heap) = 0 THEN [top |-> None, q |-> q]
    ELSE LET top == q.heap[1]
             last == q.heap[Len(q.heap)]
             rest == SubSeq(q.heap, 1, Len(q.heap) - 1)
         IN [top |-> Some(top),
             q |-> [q EXCEPT !.heap = IF Len(rest) > 0
                                      THEN sinkDown([rest EXCEPT ![1] = last], 0)
                                      ELSE rest]]

HeapPeek(q) == IF Len(q.heap) = 0 THEN None ELSE Some(q.heap[1])

HeapClear(q) == [heap |-> <<>>, seqCounter |-> 0]

HeapLength(q) == Len(q.heap)

(***************************************************************************)
(* PRNG: src/src/lib/prng.ts 1-12, 86-89.  seedrandom is an external       *)
(* library: its output stream is modelled as the periodic repetition of a  *)
(* pattern pat, pos counting the draws made.                               *)
(***************************************************************************)
RandDen == 1000

\* rng = [pat, pos, drawn]: pos is the position in the period of the next
\* output, drawn the number of outputs taken since initPropagation began.
\* The value rng() returns i draws from now, as a numerator over RandDen:
RngValue(rng, i) == rng.pat[((rng.pos + i) % Len(rng.pat)) + 1]

RngAdvance(rng, n) ==
    [rng EXCEPT !.pos = (@ + n) % Len(rng.pat), !.drawn = @ + n]

\* gfRandom: Math.floor(rngFn() * 255) + 1
gfRandom(n) == ((n * 255) \div RandDen) + 1

\* random() < lossRate, lossRate being packetLoss / 100
\* (variant: the loss rate is capped at 0.99)
IsDroppedBelowCertain(n, packetLoss) ==
    n * 100 < (IF packetLoss < 99 THEN packetLoss ELSE 99) * RandDen

IsDropped(n, packetLoss) == n * 100 < packetLoss * RandDen

(***************************************************************************)
(* Engine state and helpers: src/unnamed/part_003 (the engine module)      *)
(***************************************************************************)
MAX_RLNC_PUSHES_PER_NODE == 12
RLNC_PUSH_INTERVAL == 3
MAX_GOSSIP_RETRIES == 4
GOSSIP_RETRY_INTERVAL == 80
PUBLISHER_RESEND_TIMES == <<100, 250, 500>>

\* milliseconds to the model's time unit (0.01 ms)
Ms(t) == 100 * t
ShardStagger == 30       \* s * 0.3 ms
RelayDelay == 50         \* + 0.5 ms

\* Map<K,V> as a function; the empty Map is <<>>
EmptyMap == <<>>
MapHas(m, key) == key \in DOMAIN m
MapGet(m, key, default) == IF key \in DOMAIN m THEN m[key] ELSE default
MapSet(m, key, v) ==
    [x \in (DOMAIN m) \cup {key} |-> IF x = key THEN v ELSE m[x]]

emptyEngineMetrics ==
    [rlnc |-> [totalTransmissions |-> 0, usefulTransmissions |-> 0,
               deliveredNodes |-> <<>>, lastDeliverySimMs |-> None,
               allDone |-> FALSE],
     gossipsub |-> [totalTransmissions |-> 0, usefulTransmissions |-> 0,
                    duplicates |-> 0, deliveredNodes |-> <<>>,
                    lastDeliverySimMs |-> None, allDone |-> FALSE]]

\* The module-level state of the engine as one record (field names as in
\* the source); rng is the PRNG of lib/prng.ts, newParticles the list
\* advanceTo is building.
EngineAtLoad(rng) ==
    [eventQueue |-> NewHeap,
     rlncTrackers |-> EmptyMap,
     gossipReceived |-> {},
     gossipForwarded |-> {},
     gossipLastDuplicateSimTime |-> EmptyMap,
     rlncLastRedundantSimTime |-> EmptyMap,
     edgeLookup |-> EmptyMap,
     rlncNodeDeliveryTime |-> EmptyMap,
     gossipNodeDeliveryTime |-> EmptyMap,
     rlncRecodePushes |-> EmptyMap,
     gossipRetries |-> EmptyMap,
     metrics |-> emptyEngineMetrics,
     subscriberIds |-> <<>>,
     publisherId |-> None,
     simK |-> 4,
     simLossRate |-> 0,
     simNodes |-> <<>>,
     rng |-> rng,
     newParticles |-> <<>>]

\* nodes.find((n) => n.id === id): None or Some(node)
FindNode(nodes, id) ==
    LET at == {i \in 1..Len(nodes) : nodes[i].id = id}
    IN IF at = {} THEN None
       ELSE Some(nodes[CHOOSE i \in at : \A j \in at : i <= j])

\* edgeLookup.set(`${e.source}->${e.target}`, e) for each edge in order
BuildEdgeLookup(edges) ==
    LET keys == {<<edges[i].source, edges[i].target>> : i \in 1..Len(edges)}
    IN IF keys = {} THEN EmptyMap
       ELSE [key \in keys |->
               LET at == {i \in 1..Len(edges) :
                             <<edges[i].source, edges[i].target>> = key}
               IN edges[CHOOSE i \in at : \A j \in at : j <= i]]

\* the neighbours nb of a list for which edgeLookup has from->nb and keep(nb)
WithEdge(e, from, neighbors) ==
    SelectSeq(neighbors, LAMBDA nb : MapHas(e.edgeLookup, <<from, nb>>))

(***************************************************************************)
(* Scheduling.  A stretch of code that draws coding vectors and pushes     *)
(* events is the sequence of its steps in program order: "vector" draws a  *)
(* coding vector of vecLen coefficients (Array.from(..gfRandom(random))),  *)
(* "send" draws dropped = random() < lossRate and pushes the event.        *)
(***************************************************************************)
NoEvent ==
    [fireAt |-> 0, seq |-> 0, protocol |-> "none", type |-> "none",
     fromNode |-> "", toNode |-> "", shardIndex |-> 0,
     codingVector |-> <<>>, dropped |-> FALSE]

VectorOp == [kind |-> "vector", ev |-> NoEvent]

RlncSend(fireAt, from, to, shardIndex) ==
    [kind |-> "send",
     ev |-> [NoEvent EXCEPT !.fireAt = fireAt, !.protocol = "rlnc",
                            !.type = "shard_arrive", !.fromNode = from,
                            !.toNode = to, !.shardIndex = shardIndex]]

GossipSend(fireAt, from, to) ==
    [kind |-> "send",
     ev |-> [NoEvent EXCEPT !.fireAt = fireAt, !.protocol = "gossipsub",
                            !.type = "message_arrive", !.fromNode = from,
                            !.toNode = to]]

\* st = [e: engine, vec: the coding vector last drawn, vecLen, packetLoss]
ApplyOp(st, op) ==
    LET e == st.e
    IN IF op.kind = "vector"
       THEN [st EXCEPT
               !.vec = [j \in 1..st.vecLen |-> gfRandom(RngValue(e.rng, j - 1))],
               !.e.rng = RngAdvance(e.rng, st.vecLen)]
       ELSE LET dropped == IsDropped(RngValue(e.rng, 0), st.packetLoss)
                ev == [op.ev EXCEPT
                          !.dropped = dropped,
                          !.codingVector = IF op.ev.protocol = "rlnc"
                                           THEN st.vec ELSE <<>>]
            IN [st EXCEPT !.e.eventQueue = HeapPush(e.eventQueue, ev),
                          !.e.rng = RngAdvance(e.rng, 1)]

\* the steps ops[lo..hi] in order (split in halves, st being computed before
\* the descent -- that is all the first test does -- to keep evaluation shallow)
RECURSIVE RunOps(_, _, _, _)
RunOps(st, ops, lo, hi) ==
    IF st.e.rng.drawn < 0 \/ lo > hi THEN st
    ELSE IF lo = hi THEN ApplyOp(st, ops[lo])
    ELSE LET mid == (lo + hi) \div 2
         IN RunOps(RunOps(st, ops, lo, mid), ops, mid + 1, hi)

Schedule(e, ops, vecLen, packetLoss) ==
    RunOps([e |-> e, vec |-> <<>>, vecLen |-> vecLen, packetLoss |-> packetLoss],
           ops, 1, Len(ops)).e

(***************************************************************************)
(* initPropagation: src/unnamed/part_003 134-289                           *)
(***************************************************************************)
\* Math.ceil(a / b) for a >= 0, b > 0
CeilDiv(a, b) == (a + b - 1) \div b

Min(a, b) == IF a < b THEN a ELSE b
Max(a, b) == IF a > b THEN a ELSE b

\* (variant: Math.floor for Math.ceil)
TotalShardsRoundedDown(k, rf100, packetLoss) ==
    LET uncapped == IF packetLoss > 0
                    THEN (k * rf100) \div Max(100 - packetLoss, 15)
                    ELSE (k * rf100) \div 100
    IN Min(uncapped, k * 6)

\* (variant: without the cap)
TotalShardsUncapped(k, rf100, packetLoss) ==
    IF packetLoss > 0
    THEN CeilDiv(k * rf100, Max(100 - packetLoss, 15))
    ELSE CeilDiv(k * rf100, 100)

\* Math.min(Math.ceil(k * redundancyFactor * lossCompensation), k * 6) with
\* lossCompensation = lossRate > 0 ? 1 / Math.max(1 - lossRate, 0.15) : 1;
\* redundancyFactor is rf100 / 100, lossRate is packetLoss / 100
TotalShards(k, rf100, packetLoss) ==
    LET uncapped == IF packetLoss > 0
                    THEN CeilDiv(k * rf100, Max(100 - packetLoss, 15))
                    ELSE CeilDiv(k * rf100, 100)
    IN Min(uncapped, k * 6)

\* Math.ceil(k * 1.5)
ResendShards(k) == CeilDiv(3 * k, 2)

\* for s in 0..n-1: draw a vector, then one shard_arrive per neighbour with an edge
BurstOps(e, pub, nbE, n, base, indexBase) ==
    LET m == Len(nbE)
    IN [i \in 1..(n * (1 + m)) |->
          LET s == (i - 1) \div (1 + m)
              j == (i - 1) % (1 + m)
          IN IF j = 0 THEN VectorOp
             ELSE RlncSend(base + e.edgeLookup[<<pub, nbE[j]>>].latencyMs
                              + s * ShardStagger,
                           pub, nbE[j], indexBase + s)]

\* (variant: the publisher's message pays the store-and-forward delay too)
GossipRoundOpsStoreForward(e, pub, nbE, base) ==
    [j \in 1..Len(nbE) |->
        GossipSend(base + e.edgeLookup[<<pub, nbE[j]>>].latencyMs
                      + 150 * e.simK + 100, pub, nbE[j])]

\* one message_arrive per neighbour with an edge, at base + latency
GossipRoundOps(e, pub, nbE, base) ==
    [j \in 1..Len(nbE) |->
        GossipSend(base + e.edgeLookup[<<pub, nbE[j]>>].latencyMs, pub, nbE[j])]

\* for retry in 1..MAX_GOSSIP_RETRIES: one message_arrive per neighbour
GossipRetryOps(e, pub, nbE) ==
    LET m == Len(nbE)
    IN [i \in 1..(MAX_GOSSIP_RETRIES * m) |->
          LET retry == ((i - 1) \div m) + 1
              nb == nbE[((i - 1) % m) + 1]
          IN GossipSend(e.edgeLookup[<<pub, nb>>].latencyMs
                           + retry * Ms(GOSSIP_RETRY_INTERVAL), pub, nb)]

ResendOps(e, pub, nbE, k, resendTime) ==
    BurstOps(e, pub, nbE, ResendShards(k), Ms(resendTime), 1000 + resendTime)
    \o GossipRoundOps(e, pub, nbE, Ms(resendTime))

\* (variant: gossipReceived is not cleared)
InitResetKeepsReceived(e, params) ==
    LET subs == SelectSeq(params.nodes, LAMBDA n : n.id # params.publisherNodeId)
        ids == [i \in 1..Len(subs) |-> subs[i].id]
    IN [e EXCEPT
          !.eventQueue = HeapClear(e.eventQueue),
          !.rlncTrackers =
              IF Len(ids) = 0 THEN EmptyMap
              ELSE [id \in {ids[i] : i \in 1..Len(ids)} |-> NewTracker(params.k)],
          !.gossipReceived = @ \cup {params.publisherNodeId},
          !.gossipForwarded = {params.publisherNodeId},
          !.rlncNodeDeliveryTime = EmptyMap,
          !.gossipNodeDeliveryTime = EmptyMap,
          !.rlncRecodePushes = EmptyMap,
          !.gossipRetries = EmptyMap,
          !.gossipLastDuplicateSimTime = EmptyMap,
          !.rlncLastRedundantSimTime = EmptyMap,
          !.metrics = emptyEngineMetrics,
          !.publisherId = Some(params.publisherNodeId),
          !.simK = params.k,
          !.simLossRate = params.packetLoss,
          !.simNodes = params.nodes,
          !.edgeLookup = BuildEdgeLookup(params.edges),
          !.subscriberIds = ids]

\* initPropagation up to "if (!publisher) return": everything is reset
InitReset(e, params) ==
    LET subs == SelectSeq(params.nodes, LAMBDA n : n.id # params.publisherNodeId)
        ids == [i \in 1..Len(subs) |-> subs[i].id]
    IN [e EXCEPT
          !.eventQueue = HeapClear(e.eventQueue),
          !.rlncTrackers =
              IF Len(ids) = 0 THEN EmptyMap
              ELSE [id \in {ids[i] : i \in 1..Len(ids)} |-> NewTracker(params.k)],
          !.gossipReceived = {params.publisherNodeId},
          !.gossipForwarded = {params.publisherNodeId},
          !.rlncNodeDeliveryTime = EmptyMap,
          !.gossipNodeDeliveryTime = EmptyMap,
          !.rlncRecodePushes = EmptyMap,
          !.gossipRetries = EmptyMap,
          !.gossipLastDuplicateSimTime = EmptyMap,
          !.rlncLastRedundantSimTime = EmptyMap,
          !.metrics = emptyEngineMetrics,
          !.publisherId = Some(params.publisherNodeId),
          !.simK = params.k,
          !.simLossRate = params.packetLoss,
          !.simNodes = params.nodes,
          !.edgeLookup = BuildEdgeLookup(params.edges),
          !.subscriberIds = ids]

InitOps(e, params) ==
    LET pub == params.publisherNodeId
        publisher == FindNode(params.nodes, pub)[1]
        nbE == WithEdge(e, pub, publisher.neighbors)
        k == params.k
    IN BurstOps(e, pub, nbE,
                TotalShards(k, params.redundancyFactor, params.packetLoss), 0, 0)
       \o GossipRoundOps(e, pub, nbE, 0)
       \o GossipRetryOps(e, pub, nbE)
       \o ResendOps(e, pub, nbE, k, PUBLISHER_RESEND_TIMES[1])
       \o ResendOps(e, pub, nbE, k, PUBLISHER_RESEND_TIMES[2])
       \o ResendOps(e, pub, nbE, k, PUBLISHER_RESEND_TIMES[3])

initPropagation(e, params) ==
    LET e1 == InitReset(e, params)
    IN IF FindNode(params.nodes, params.publisherNodeId) = None THEN e1
       ELSE Schedule(e1, InitOps(e1, params), params.k, e1.simLossRate)

(***************************************************************************)
(* processRLNC: src/unnamed/part_003 347-435                               *)
(***************************************************************************)
Particle(event, isRedundant) ==
    [protocol |-> event.protocol, fromNode |-> event.fromNode,
     toNode |-> event.toNode, startTime |-> event.fireAt,
     shardIndex |-> event.shardIndex, dropped |-> event.dropped,
     isRedundant |-> isRedundant,
     seq |-> event.seq]      \* not a field of the particle: the event's seq

\* (variant: the node the shard came from is served as well)
RelayOpsBackToSender(e, event, node) ==
    LET eligible == SelectSeq(node.neighbors, LAMBDA nb :
                       /\ Some(nb) # e.publisherId
                       /\ ~(MapHas(e.rlncTrackers, nb) /\ isFullRank(e.rlncTrackers[nb]))
                       /\ MapHas(e.edgeLookup, <<event.toNode, nb>>))
    IN [i \in 1..(4 * Len(eligible)) |->
          LET nb == eligible[((i - 1) \div 4) + 1]
              j == (i - 1) % 4
              batch == j \div 2
          IN IF j % 2 = 0 THEN VectorOp
             ELSE RlncSend(event.fireAt
                             + e.edgeLookup[<<event.toNode, nb>>].latencyMs
                             + RelayDelay + batch * Ms(RLNC_PUSH_INTERVAL),
                           event.toNode, nb, event.shardIndex + batch * 100)]

\* the relay loop: two shards (batch 0 and 1) to every eligible neighbour
RelayOps(e, event, node) ==
    LET eligible == SelectSeq(node.neighbors, LAMBDA nb :
                       /\ nb # event.fromNode
                       /\ Some(nb) # e.publisherId
                       /\ ~(MapHas(e.rlncTrackers, nb) /\ isFullRank(e.rlncTrackers[nb]))
                       /\ MapHas(e.edgeLookup, <<event.toNode, nb>>))
    IN [i \in 1..(4 * Len(eligible)) |->
          LET nb == eligible[((i - 1) \div 4) + 1]
              j == (i - 1) % 4
              batch == j \div 2
          IN IF j % 2 = 0 THEN VectorOp
             ELSE RlncSend(event.fireAt
                             + e.edgeLookup[<<event.toNode, nb>>].latencyMs
                             + RelayDelay + batch * Ms(RLNC_PUSH_INTERVAL),
                           event.toNode, nb, event.shardIndex + batch * 100)]

\* (variant: the budget test is > for >=)
processRLNCCapOffByOne(e0, event, packetLoss, nodes) ==
    LET hasTracker == MapHas(e0.rlncTrackers, event.toNode)
        isRedundant == ~event.dropped /\ hasTracker
                       /\ isFullRank(e0.rlncTrackers[event.toNode])
        e1 == [e0 EXCEPT
                 !.metrics.rlnc.totalTransmissions = @ + 1,
                 !.newParticles = Append(@, Particle(event, isRedundant))]
    IN IF event.dropped THEN e1
       ELSE IF ~hasTracker THEN e1
       ELSE IF isFullRank(e1.rlncTrackers[event.toNode])
       THEN [e1 EXCEPT !.rlncLastRedundantSimTime =
                           MapSet(@, event.toNode, event.fireAt)]
       ELSE
         LET res == addRow(e1.rlncTrackers[event.toNode], event.codingVector)
             e2 == [e1 EXCEPT
                      !.rlncTrackers[event.toNode] = res.t,
                      !.metrics.rlnc.usefulTransmissions =
                          IF res.ret THEN @ + 1 ELSE @]
             e3 == IF isFullRank(res.t)
                      /\ ~MapHas(e2.rlncNodeDeliveryTime, event.toNode)
                   THEN [e2 EXCEPT
                           !.rlncNodeDeliveryTime =
                               MapSet(@, event.toNode, event.fireAt),
                           !.metrics.rlnc.deliveredNodes = Append(@, event.toNode)]
                   ELSE e2
             node == FindNode(nodes, event.toNode)
             pushCount == MapGet(e3.rlncRecodePushes, event.toNode, 0)
         IN IF node = None THEN e3
            ELSE IF pushCount > MAX_RLNC_PUSHES_PER_NODE THEN e3
            ELSE LET e4 == [e3 EXCEPT !.rlncRecodePushes =
                                         MapSet(@, event.toNode, pushCount + 1)]
                 IN Schedule(e4, RelayOps(e4, event, node[1]), e4.simK, packetLoss)

\* (variant: a dropped shard is not set aside)
processRLNCFeedsDropped(e0, event, packetLoss, nodes) ==
    LET hasTracker == MapHas(e0.rlncTrackers, event.toNode)
        isRedundant == ~event.dropped /\ hasTracker
                       /\ isFullRank(e0.rlncTrackers[event.toNode])
        e1 == [e0 EXCEPT
                 !.metrics.rlnc.totalTransmissions = @ + 1,
                 !.newParticles = Append(@, Particle(event, isRedundant))]
    IN IF ~hasTracker THEN e1
       ELSE IF isFullRank(e1.rlncTrackers[event.toNode])
       THEN [e1 EXCEPT !.rlncLastRedundantSimTime =
                           MapSet(@, event.toNode, event.fireAt)]
       ELSE
         LET res == addRow(e1.rlncTrackers[event.toNode], event.codingVector)
             e2 == [e1 EXCEPT
                      !.rlncTrackers[event.toNode] = res.t,
                      !.metrics.rlnc.usefulTransmissions =
                          IF res.ret THEN @ + 1 ELSE @]
             e3 == IF isFullRank(res.t)
                      /\ ~MapHas(e2.rlncNodeDeliveryTime, event.toNode)
                   THEN [e2 EXCEPT
                           !.rlncNodeDeliveryTime =
                               MapSet(@, event.toNode, event.fireAt),
                           !.metrics.rlnc.deliveredNodes = Append(@, event.toNode)]
                   ELSE e2
             node == FindNode(nodes, event.toNode)
             pushCount == MapGet(e3.rlncRecodePushes, event.toNode, 0)
         IN IF node = None THEN e3
            ELSE IF pushCount >= MAX_RLNC_PUSHES_PER_NODE THEN e3
            ELSE LET e4 == [e3 EXCEPT !.rlncRecodePushes =
                                         MapSet(@, event.toNode, pushCount + 1)]
                 IN Schedule(e4, RelayOps(e4, event, node[1]), e4.simK, packetLoss)

processRLNC(e0, event, packetLoss, nodes) ==
    LET hasTracker == MapHas(e0.rlncTrackers, event.toNode)
        isRedundant == ~event.dropped /\ hasTracker
                       /\ isFullRank(e0.rlncTrackers[event.toNode])
        e1 == [e0 EXCEPT
                 !.metrics.rlnc.totalTransmissions = @ + 1,
                 !.newParticles = Append(@, Particle(event, isRedundant))]
    IN IF event.dropped THEN e1
       ELSE IF ~hasTracker THEN e1
       ELSE IF isFullRank(e1.rlncTrackers[event.toNode])
       THEN [e1 EXCEPT !.rlncLastRedundantSimTime =
                           MapSet(@, event.toNode, event.fireAt)]
       ELSE
         LET res == addRow(e1.rlncTrackers[event.toNode], event.codingVector)
             e2 == [e1 EXCEPT
                      !.rlncTrackers[event.toNode] = res.t,
                      !.metrics.rlnc.usefulTransmissions =
                          IF res.ret THEN @ + 1 ELSE @]
             e3 == IF isFullRank(res.t)
                      /\ ~MapHas(e2.rlncNodeDeliveryTime, event.toNode)
                   THEN [e2 EXCEPT
                           !.rlncNodeDeliveryTime =
                               MapSet(@, event.toNode, event.fireAt),
                           !.metrics.rlnc.deliveredNodes = Append(@, event.toNode)]
                   ELSE e2
             node == FindNode(nodes, event.toNode)
             pushCount == MapGet(e3.rlncRecodePushes, event.toNode, 0)
         IN IF node = None THEN e3
            ELSE IF pushCount >= MAX_RLNC_PUSHES_PER_NODE THEN e3
            ELSE LET e4 == [e3 EXCEPT !.rlncRecodePushes =
                                         MapSet(@, event.toNode, pushCount + 1)]
                 IN Schedule(e4, RelayOps(e4, event, node[1]), e4.simK, packetLoss)

(***************************************************************************)
(* processGossip: src/unnamed/part_003 439-527                             *)
(***************************************************************************)
\* (variant: no store-and-forward delay)
StoreForwardDelayNone(k) == 0

StoreForwardDelay(k) == 150 * k + 100     \* simK * 1.5 + 1 ms

\* (variant: the sender is served as well)
ForwardOpsToSenderToo(e, event, node) ==
    LET to == WithEdge(e, event.toNode, node.neighbors)
    IN [j \in 1..Len(to) |->
          GossipSend(event.fireAt
                        + e.edgeLookup[<<event.toNode, to[j]>>].latencyMs
                        + StoreForwardDelay(e.simK),
                     event.toNode, to[j])]

ForwardOps(e, event, node) ==
    LET to == SelectSeq(node.neighbors, LAMBDA nb :
                  /\ nb # event.fromNode
                  /\ MapHas(e.edgeLookup, <<event.toNode, nb>>))
    IN [j \in 1..Len(to) |->
          GossipSend(event.fireAt
                        + e.edgeLookup[<<event.toNode, to[j]>>].latencyMs
                        + StoreForwardDelay(e.simK),
                     event.toNode, to[j])]

RetryOps(e, event, node) ==
    LET to == WithEdge(e, event.toNode, node.neighbors)
    IN [j \in 1..Len(to) |->
          GossipSend(event.fireAt + Ms(GOSSIP_RETRY_INTERVAL)
                        + e.edgeLookup[<<event.toNode, to[j]>>].latencyMs
                        + StoreForwardDelay(e.simK),
                     event.toNode, to[j])]

processGossip(e0, event, packetLoss, nodes) ==
    LET gIsRedundant == ~event.dropped /\ event.toNode \in e0.gossipReceived
        e1 == [e0 EXCEPT
                 !.metrics.gossipsub.totalTransmissions = @ + 1,
                 !.newParticles = Append(@, Particle(event, gIsRedundant))]
    IN IF event.dropped THEN e1
       ELSE IF event.toNode \in e1.gossipReceived
       THEN [e1 EXCEPT !.metrics.gossipsub.duplicates = @ + 1,
                       !.gossipLastDuplicateSimTime =
                           MapSet(@, event.toNode, event.fireAt)]
       ELSE
         LET e2 == [e1 EXCEPT
                      !.metrics.gossipsub.usefulTransmissions = @ + 1,
                      !.gossipReceived = @ \cup {event.toNode},
                      !.gossipNodeDeliveryTime =
                          MapSet(@, event.toNode, event.fireAt),
                      !.metrics.gossipsub.deliveredNodes = Append(@, event.toNode)]
         IN IF event.toNode \in e2.gossipForwarded THEN e2
            ELSE
              LET e3 == [e2 EXCEPT !.gossipForwarded = @ \cup {event.toNode}]
                  node == FindNode(nodes, event.toNode)
              IN IF node = None THEN e3
                 ELSE
                   LET e4 == Schedule(e3, ForwardOps(e3, event, node[1]),
                                      e3.simK, packetLoss)
                       retryCount == MapGet(e4.gossipRetries, event.toNode, 0)
                   IN IF retryCount < MAX_GOSSIP_RETRIES
                      THEN LET e5 == [e4 EXCEPT !.gossipRetries =
                                         MapSet(@, event.toNode, retryCount + 1)]
                           IN Schedule(e5, RetryOps(e5, event, node[1]),
                                       e5.simK, packetLoss)
                      ELSE e4

(***************************************************************************)
(* advanceTo: src/unnamed/part_003 295-343                                 *)
(***************************************************************************)
\* (variant: < for <=)
EventDueBefore(e, simTimeMs) ==
    HeapLength(e.eventQueue) > 0 /\ HeapPeek(e.eventQueue)[1].fireAt < simTimeMs

\* the loop condition: eventQueue.length > 0 && eventQueue.peek().fireAt <= simTimeMs
EventDue(e, simTimeMs) ==
    HeapLength(e.eventQueue) > 0 /\ HeapPeek(e.eventQueue)[1].fireAt <= simTimeMs

\* (variant: a duplicate gossip delivery is counted as useful as well)
ProcessNextDuplicateAlsoUseful(e, packetLoss, nodes) ==
    LET res == HeapPop(e.eventQueue)
        event == res.top[1]
        e1 == [e EXCEPT !.eventQueue = res.q]
    IN IF event.protocol = "rlnc"
       THEN processRLNC(e1, event, packetLoss, nodes)
       ELSE IF ~event.dropped /\ event.toNode \in e1.gossipReceived
       THEN [processGossip(e1, event, packetLoss, nodes) EXCEPT
                !.metrics.gossipsub.usefulTransmissions = @ + 1]
       ELSE processGossip(e1, event, packetLoss, nodes)

\* (variant: every shard that reaches a full-rank node stamps its delivery time)
ProcessNextRestampsDelivery(e, packetLoss, nodes) ==
    LET res == HeapPop(e.eventQueue)
        event == res.top[1]
        e1 == [e EXCEPT !.eventQueue = res.q]
    IN IF event.protocol = "rlnc"
       THEN LET e2 == processRLNC(e1, event, packetLoss, nodes)
            IN IF ~event.dropped /\ MapHas(e2.rlncTrackers, event.toNode)
                  /\ isFullRank(e2.rlncTrackers[event.toNode])
               THEN [e2 EXCEPT !.rlncNodeDeliveryTime =
                                   MapSet(@, event.toNode, event.fireAt)]
               ELSE e2
       ELSE processGossip(e1, event, packetLoss, nodes)

\* one iteration of the loop body
ProcessNext(e, packetLoss, nodes) ==
    LET res == HeapPop(e.eventQueue)
        event == res.top[1]
        e1 == [e EXCEPT !.eventQueue = res.q]
    IN IF event.protocol = "rlnc"
       THEN processRLNC(e1, event, packetLoss, nodes)
       ELSE processGossip(e1, event, packetLoss, nodes)

\* at most n iterations of the loop
RECURSIVE LoopUpTo(_, _, _, _, _)
LoopUpTo(e, simTimeMs, packetLoss, nodes, n) ==
    IF n = 0 \/ ~EventDue(e, simTimeMs) THEN e
    ELSE LoopUpTo(ProcessNext(e, packetLoss, nodes), simTimeMs, packetLoss, nodes, n - 1)

\* the while loop (in rounds of 16 iterations, to keep evaluation shallow)
RECURSIVE ProcessLoop(_, _, _, _)
ProcessLoop(e, simTimeMs, packetLoss, nodes) ==
    IF ~EventDue(e, simTimeMs) THEN e
    ELSE ProcessLoop(LoopUpTo(e, simTimeMs, packetLoss, nodes, 16),
                     simTimeMs, packetLoss, nodes)

SeqToSet(q) == {q[i] : i \in 1..Len(q)}

\* let maxTime = 0; for (const t of m.values()) if (t > maxTime) maxTime = t
MaxTime(m) ==
    LET ts == {m[x] : x \in DOMAIN m} \cup {0}
    IN CHOOSE t \in ts : \A u \in ts : u <= t

\* (variant: no rounding)
RoundTenthExact(t) == t

\* Math.round(maxTime * 10) / 10, Math.round(x) being floor(x + 0.5): the
\* nearest multiple of 0.1 ms, a half going up
RoundTenth(t) == ((t + 5) \div 10) * 10

\* advanceTo after its loop: allDone and the last delivery times
\* (variant: rlnc.allDone only in a call that processed an event)
RecomputeOnlyWhenBusy(e) ==
    LET subs == SeqToSet(e.subscriberIds)
        rlncDone == Len(e.subscriberIds) > 0 /\ Len(e.newParticles) > 0
                    /\ \A id \in subs :
                          MapHas(e.rlncTrackers, id) /\ isFullRank(e.rlncTrackers[id])
        gossipDone == Len(e.subscriberIds) > 0
                      /\ \A id \in subs : id \in e.gossipReceived
    IN [e EXCEPT
          !.metrics.rlnc.allDone = rlncDone,
          !.metrics.gossipsub.allDone = gossipDone,
          !.metrics.rlnc.lastDeliverySimMs =
              IF DOMAIN e.rlncNodeDeliveryTime # {}
              THEN Some(RoundTenth(MaxTime(e.rlncNodeDeliveryTime))) ELSE @,
          !.metrics.gossipsub.lastDeliverySimMs =
              IF DOMAIN e.gossipNodeDeliveryTime # {}
              THEN Some(RoundTenth(MaxTime(e.gossipNodeDeliveryTime))) ELSE @]

Recompute(e) ==
    LET subs == SeqToSet(e.subscriberIds)
        rlncDone == Len(e.subscriberIds) > 0
                    /\ \A id \in subs :
                          MapHas(e.rlncTrackers, id) /\ isFullRank(e.rlncTrackers[id])
        gossipDone == Len(e.subscriberIds) > 0
                      /\ \A id \in subs : id \in e.gossipReceived
    IN [e EXCEPT
          !.metrics.rlnc.allDone = rlncDone,
          !.metrics.gossipsub.allDone = gossipDone,
          !.metrics.rlnc.lastDeliverySimMs =
              IF DOMAIN e.rlncNodeDeliveryTime # {}
              THEN Some(RoundTenth(MaxTime(e.rlncNodeDeliveryTime))) ELSE @,
          !.metrics.gossipsub.lastDeliverySimMs =
              IF DOMAIN e.gossipNodeDeliveryTime # {}
              THEN Some(RoundTenth(MaxTime(e.gossipNodeDeliveryTime))) ELSE @]

\* (variant: the counters start from zero at every call)
advanceToCountsPerCall(e, simTimeMs, packetLoss, nodes) ==
    Recompute(ProcessLoop([e EXCEPT !.newParticles = <<>>,
                                    !.metrics = emptyEngineMetrics],
                          simTimeMs, packetLoss, nodes))

advanceTo(e, simTimeMs, packetLoss, nodes) ==
    Recompute(ProcessLoop([e EXCEPT !.newParticles = <<>>],
                          simTimeMs, packetLoss, nodes))

(***************************************************************************)
(* Query helpers and clearEngine: src/unnamed/part_003 531-579             *)
(***************************************************************************)
hasRemainingEvents(e) == HeapLength(e.eventQueue) > 0

nextEventTime(e) ==
    IF HeapPeek(e.eventQueue) = None THEN None
    ELSE Some(HeapPeek(e.eventQueue)[1].fireAt)

getRLNCRank(e, nodeId) ==
    IF MapHas(e.rlncTrackers, nodeId) THEN e.rlncTrackers[nodeId].rank ELSE 0

isRLNCReconstructed(e, nodeId) ==
    MapHas(e.rlncTrackers, nodeId) /\ isFullRank(e.rlncTrackers[nodeId])

hasGossipMessage(e, nodeId) == nodeId \in e.gossipReceived

\* (variant: the event queue survives)
clearEngineKeepsQueue(e) ==
    [e EXCEPT
       !.rlncTrackers = EmptyMap,
       !.gossipReceived = {},
       !.gossipForwarded = {},
       !.rlncNodeDeliveryTime = EmptyMap,
       !.gossipNodeDeliveryTime = EmptyMap,
       !.rlncRecodePushes = EmptyMap,
       !.gossipRetries = EmptyMap,
       !.gossipLastDuplicateSimTime = EmptyMap,
       !.rlncLastRedundantSimTime = EmptyMap,
       !.metrics = emptyEngineMetrics,
       !.subscriberIds = <<>>,
       !.publisherId = None,
       !.simNodes = <<>>]

clearEngine(e) ==
    [e EXCEPT
       !.eventQueue = HeapClear(e.eventQueue),
       !.rlncTrackers = EmptyMap,
       !.gossipReceived = {},
       !.gossipForwarded = {},
       !.rlncNodeDeliveryTime = EmptyMap,
       !.gossipNodeDeliveryTime = EmptyMap,
       !.rlncRecodePushes = EmptyMap,
       !.gossipRetries = EmptyMap,
       !.gossipLastDuplicateSimTime = EmptyMap,
       !.rlncLastRedundantSimTime = EmptyMap,
       !.metrics = emptyEngineMetrics,
       !.subscriberIds = <<>>,
       !.publisherId = None,
       !.simNodes = <<>>]

(***************************************************************************)
(* Specification SpecGF: gfMul applied to every pair of bytes.             *)
(***************************************************************************)
InitGFIdle ==
    gfA = 0 /\ gfB = 0 /\ gfOut = None /\ gfSum = None /\ gfInverse = None
InitShardsIdle ==
    /\ shardArgs = [k |-> 1, redundancyFactor |-> 100, packetLoss |-> 0]
    /\ shardCount = None
InitRankIdle ==
    /\ tracker = NewTracker(1) /\ prevTracker = NewTracker(1) /\ rowsSeen = {}
    /\ rowsBefore = {}
    /\ lastRow = None /\ addRet = None
InitHeapIdle ==
    /\ queue = NewHeap /\ popped = None /\ heapBefore = <<>> /\ popLog = <<>>

NoCall == [op |-> "none", t |-> 0, packetLoss |-> 0, dirty |-> FALSE]
DefaultRng == [pat |-> <<0>>, pos |-> 0, drawn |-> 0]
EmptyStore ==
    [nodes |-> <<>>, edges |-> <<>>, publisherNodeId |-> "",
     k |-> 4, redundancyFactor |-> 100, packetLoss |-> 0]
InitEngineIdle ==
    /\ eng = EngineAtLoad(DefaultRng) /\ shadow = EngineAtLoad(DefaultRng)
    /\ store = EmptyStore /\ lastCall = NoCall
    /\ before = None /\ before2 = None
    /\ latest = None /\ held = None /\ lossMoves = 0

InitGF ==
    /\ gfA \in Bytes /\ gfB \in Bytes
    /\ gfOut = None /\ gfSum = None /\ gfInverse = None
    /\ InitRankIdle /\ InitHeapIdle /\ InitEngineIdle
    /\ InitShardsIdle

GfMulCall ==
    /\ gfOut = None
    /\ gfOut' = Some(gfMul(gfA, gfB))
    /\ UNCHANGED <<gfA, gfB, gfSum, gfInverse, rankVars, heapVars, engVars, shardVars>>

GfAddCall ==
    /\ gfSum = None
    /\ gfSum' = Some(gfAdd(gfA, gfB))
    /\ UNCHANGED <<gfA, gfB, gfOut, gfInverse, rankVars, heapVars, engVars, shardVars>>

\* gfInv(gfA): the value returned, or GfError for the Error thrown
GfInvCall ==
    /\ gfInverse = None
    /\ gfInverse' = Some(gfInv(gfA))
    /\ UNCHANGED <<gfA, gfB, gfOut, gfSum, rankVars, heapVars, engVars, shardVars>>

NextGF == GfMulCall \/ GfAddCall \/ GfInvCall

SpecGF == InitGF /\ [][NextGF]_vars

(***************************************************************************)
(* Specification SpecRank: one tracker, fed rows over RowVals.             *)
(***************************************************************************)
RowVals == {0, 1, 2, 3}
Rows(k) == [1..k -> RowVals]

InitRank ==
    /\ \E k \in 1..MaxK : tracker = NewTracker(k) /\ prevTracker = NewTracker(k)
    /\ rowsSeen = {} /\ rowsBefore = {} /\ lastRow = None /\ addRet = None
    /\ InitGFIdle /\ InitHeapIdle /\ InitEngineIdle
    /\ InitShardsIdle

AddRowCall ==
    /\ Cardinality(rowsSeen) < MaxRows
    /\ \E row \in Rows(tracker.k) :
          LET res == addRow(tracker, row)
          IN /\ tracker' = res.t
             /\ addRet' = IF res.threw THEN Some(GfError) ELSE Some(res.ret)
             /\ prevTracker' = tracker
             /\ lastRow' = row
             /\ rowsSeen' = rowsSeen \cup {row}
             /\ rowsBefore' = rowsSeen
    /\ UNCHANGED <<gfVars, heapVars, engVars, shardVars>>

NextRank == AddRowCall

SpecRank == InitRank /\ [][NextRank]_vars

(***************************************************************************)
(* Specification SpecShards: the size of the initial burst for k in        *)
(* 1..MaxShardK, the redundancy factors ShardRfVals and every whole        *)
(* percentage of packet loss.                                              *)
(***************************************************************************)
MaxShardK == 6
ShardRfVals == {100, 101, 133, 150, 200, 599, 600, 700}

InitShards ==
    /\ shardArgs \in [k : 1..MaxShardK, redundancyFactor : ShardRfVals,
                      packetLoss : 0..100]
    /\ shardCount = None
    /\ InitGFIdle /\ InitRankIdle /\ InitHeapIdle /\ InitEngineIdle

TotalShardsCall ==
    /\ shardCount = None
    /\ shardCount' = Some(TotalShards(shardArgs.k, shardArgs.redundancyFactor,
                                      shardArgs.packetLoss))
    /\ UNCHANGED <<shardArgs, gfVars, rankVars, heapVars, engVars>>

NextShards == TotalShardsCall

SpecShards == InitShards /\ [][NextShards]_vars

(***************************************************************************)
(* Specification SpecHeap: one MinHeap under push, pop and clear.          *)
(***************************************************************************)
InitHeap ==
    /\ queue = NewHeap /\ popped = None /\ heapBefore = <<>> /\ popLog = <<>>
    /\ InitGFIdle /\ InitRankIdle /\ InitEngineIdle
    /\ InitShardsIdle

PushCall ==
    /\ queue.seqCounter < MaxPush
    /\ \E f \in 0..MaxFire :
          queue' = HeapPush(queue, [fireAt |-> f, seq |-> 0])
    /\ popped' = None
    /\ heapBefore' = queue.heap
    /\ popLog' = <<>>
    /\ UNCHANGED <<gfVars, rankVars, engVars, shardVars>>

PopCall ==
    /\ LET res == HeapPop(queue)
       IN /\ queue' = res.q
          /\ popped' = res.top
          /\ popLog' = popLog \o res.top
    /\ heapBefore' = queue.heap
    /\ UNCHANGED <<gfVars, rankVars, engVars, shardVars>>

ClearCall ==
    /\ queue' = HeapClear(queue)
    /\ popped' = None
    /\ heapBefore' = <<>>
    /\ popLog' = <<>>
    /\ UNCHANGED <<gfVars, rankVars, engVars, shardVars>>

NextHeap == PushCall \/ PopCall \/ ClearCall

SpecHeap == InitHeap /\ [][NextHeap]_vars

(***************************************************************************)
(* Specification Spec: the engine driven by a caller, as the simulation    *)
(* loop drives it: initPropagation with the store's parameters, advanceTo  *)
(* with the store's packet loss and nodes, clearEngine, getEngineMetrics.  *)
(***************************************************************************)
MaxSimK == 2          \* k of the engine runs is 1..MaxSimK
MaxPeriod == 2        \* PRNG streams repeat a pattern of at most MaxPeriod outputs
MaxLossMoves == 1     \* moves of the caller's packet-loss slider

RandVals == {0, 600, 999}        \* as r = n / RandDen: gfRandom 1, 154, 255
LossVals == {0, 50, 100}         \* packet loss, percent
RfVals == {100, 133}             \* redundancy factor, hundredths

Patterns(n) == [1..n -> RandVals]

Node(id, neighbors) == [id |-> id, neighbors |-> neighbors]
\* the two edges makeEdge builds for a link (here with one latency for both
\* directions); packetLossRate is the packet loss of the time
Link(a, b, lat, loss) ==
    <<[source |-> a, target |-> b, latencyMs |-> lat, packetLossRate |-> loss],
      [source |-> b, target |-> a, latencyMs |-> lat, packetLossRate |-> loss]>>

\* publisher P and one subscriber, 5 ms apart
PairNodes == <<Node("P", <<"A">>), Node("A", <<"P">>)>>
PairEdges(loss) == Link("P", "A", 500, loss)

\* publisher P and subscribers A, B, all linked
TriangleNodes ==
    <<Node("P", <<"A", "B">>), Node("A", <<"P", "B">>), Node("B", <<"P", "A">>)>>
TriangleEdges(loss) ==
    Link("P", "A", 100, loss) \o Link("P", "B", 200, loss) \o Link("A", "B", 100, loss)

\* Scenario A: publisher P with neighbours A, B, C at 10, 20 and 30 ms
StarNodes ==
    <<Node("P", <<"A", "B", "C">>), Node("A", <<"P">>), Node("B", <<"P">>),
      Node("C", <<"P">>)>>
StarEdges(loss) ==
    Link("P", "A", 1000, loss) \o Link("P", "B", 2000, loss) \o Link("P", "C", 3000, loss)

StoreOf(nodes, edges, pub, k, rf, loss) ==
    [nodes |-> nodes, edges |-> edges, publisherNodeId |-> pub,
     k |-> k, redundancyFactor |-> rf, packetLoss |-> loss]

Stores ==
    {StoreOf(PairNodes, PairEdges(loss), "P", k, rf, loss) :
        k \in 1..MaxSimK, rf \in RfVals, loss \in LossVals}
    \cup {StoreOf(TriangleNodes, TriangleEdges(loss), "P", MaxSimK, 133, loss) :
        loss \in LossVals}
    \cup {StoreOf(PairNodes, PairEdges(0), "X", 1, 100, 0),      \* publisher not a node
          StoreOf(<<Node("P", <<>>)>>, <<>>, "P", 1, 100, 0),    \* no subscriber
          StoreOf(PairNodes, PairEdges(0), "P", 0, 100, 0),      \* k = 0
          StoreOf(PairNodes, Link("P", "A", 525, 0), "P", 1, 100, 0)}  \* 5.25 ms apart

ScenarioA == StoreOf(StarNodes, StarEdges(0), "P", 4, 133, 0)

\* the params object the caller builds from its store
ParamsOf(st) ==
    [nodes |-> st.nodes, edges |-> st.edges, publisherNodeId |-> st.publisherNodeId,
     k |-> st.k, redundancyFactor |-> st.redundancyFactor,
     packetLoss |-> st.packetLoss]

\* { ...metrics }: a new object whose rlnc and gossipsub are the engine's own
\* inner objects; atReturn is their content when the copy was made.
ShallowCopy(e) == [atReturn |-> e.metrics]

\* what a reader of such a copy sees, the engine being e and its metrics
\* variable still holding the objects the copy was made of
Deref(s, e) == e.metrics

InitEngineOf(stores, period) ==
    /\ store \in stores
    /\ \E pat \in Patterns(period) :
          /\ eng = EngineAtLoad([pat |-> pat, pos |-> 0, drawn |-> 0])
          /\ shadow = eng
    /\ lastCall = NoCall
    /\ before = None /\ before2 = None
    /\ latest = None /\ held = None /\ lossMoves = 0
    /\ InitGFIdle /\ InitRankIdle /\ InitHeapIdle /\ InitShardsIdle

InitEngine(stores) == InitEngineOf(stores, MaxPeriod)

Init == InitEngine(Stores)

IsAtLoad(e) == [e EXCEPT !.rng = DefaultRng] = EngineAtLoad(DefaultRng)

\* initPropagation(params), params built from the store.  The caller drops
\* the metrics objects of the run before.
InitPropagationCall ==
    LET e0 == [eng EXCEPT !.rng.drawn = 0, !.newParticles = <<>>]
    IN /\ eng' = initPropagation(e0, ParamsOf(store))
       /\ shadow' = initPropagation(EngineAtLoad(e0.rng), ParamsOf(store))
       /\ lastCall' = [op |-> "init", t |-> 0, packetLoss |-> store.packetLoss,
                       dirty |-> ~IsAtLoad(eng)]
       /\ before' = None /\ before2' = None
       /\ latest' = None /\ held' = None
       /\ UNCHANGED <<store, lossMoves, gfVars, rankVars, heapVars, shardVars>>

\* The simulated times the caller advances to: the next event (stepForward)
\* or, in a run advanced so far by frames only or by one single step, the
\* next multiple of Hop; simulated time only moves forward.
Hop == Ms(200)
LastHop == Ms(800)
AdvanceTimes ==
    (IF /\ lastCall.t < LastHop
        /\ (lastCall.op # "advance" \/ lastCall.t % Hop = 0 \/ before2 = None)
     THEN {((lastCall.t \div Hop) + 1) * Hop} ELSE {})
    \cup (IF nextEventTime(eng) = None THEN {} ELSE {nextEventTime(eng)[1]})

\* advanceTo(t, store.packetLoss, store.nodes); the caller keeps the object
\* returned and the one returned before it
AdvanceToAt(t) ==
    /\ eng' = advanceTo(eng, t, store.packetLoss, store.nodes)
    /\ shadow' = IF shadow = eng THEN eng'
                 ELSE advanceTo(shadow, t, store.packetLoss, store.nodes)
    /\ lastCall' = [op |-> "advance", t |-> t, packetLoss |-> store.packetLoss,
                    dirty |-> lastCall.dirty]
    /\ before' = Some([e |-> eng, t |-> t, packetLoss |-> store.packetLoss])
    /\ before2' = IF lastCall.op = "advance" THEN before ELSE None
    /\ latest' = Some(ShallowCopy(eng'))
    /\ held' = latest
    /\ UNCHANGED <<store, lossMoves, gfVars, rankVars, heapVars, shardVars>>

AdvanceToCall == \E t \in AdvanceTimes : AdvanceToAt(t)

\* getEngineMetrics(), for a caller that holds no metrics object yet
GetEngineMetricsCall ==
    /\ latest = None
    /\ latest' = Some(ShallowCopy(eng))
    /\ UNCHANGED <<eng, shadow, store, lastCall, before, before2, held, lossMoves,
                   gfVars, rankVars, heapVars, shardVars>>

\* clearEngine(); the caller drops the metrics objects it holds
ClearEngineCall ==
    /\ eng' = [clearEngine(eng) EXCEPT !.rng.drawn = 0, !.newParticles = <<>>]
    /\ shadow' = eng'
    /\ lastCall' = [op |-> "clear", t |-> 0, packetLoss |-> store.packetLoss,
                    dirty |-> FALSE]
    /\ before' = None /\ before2' = None
    /\ latest' = None /\ held' = None
    /\ UNCHANGED <<store, lossMoves, gfVars, rankVars, heapVars, shardVars>>

\* the caller's packet-loss slider moves (to the next of LossVals) between
\* initPropagation and the first advanceTo of a run
NextLoss(loss) ==
    IF \E l \in LossVals : l > loss
    THEN CHOOSE l \in LossVals : l > loss /\ \A m \in LossVals : m > loss => l <= m
    ELSE CHOOSE l \in LossVals : \A m \in LossVals : l <= m

SetPacketLoss ==
    /\ lastCall.op = "init"
    /\ lossMoves < MaxLossMoves
    /\ LET loss == NextLoss(store.packetLoss)
       IN store' = [store EXCEPT
                      !.packetLoss = loss,
                      !.edges = IF Len(@) = 0 THEN <<>>
                                ELSE [i \in 1..Len(@) |->
                                        [@[i] EXCEPT !.packetLossRate = loss]]]
    /\ lossMoves' = lossMoves + 1
    /\ UNCHANGED <<eng, shadow, lastCall, before, before2, latest, held,
                   gfVars, rankVars, heapVars, shardVars>>

Next ==
    \/ InitPropagationCall
    \/ AdvanceToCall
    \/ GetEngineMetricsCall
    \/ ClearEngineCall
    \/ SetPacketLoss

Spec == Init /\ [][Next]_vars

(***************************************************************************)
(* Specification SpecA: the same caller on Scenario A.                     *)
(***************************************************************************)
InitA == InitEngine({ScenarioA})

SpecA == InitA /\ [][Next]_vars

(***************************************************************************)
(* Specification SpecB: Scenario B of the description, the star of         *)
(* Scenario A at 100% packet loss.                                         *)
(***************************************************************************)
ScenarioB == StoreOf(StarNodes, StarEdges(100), "P", 4, 133, 100)

InitB == InitEngine({ScenarioB})

SpecB == InitB /\ [][Next]_vars

(***************************************************************************)
(* Specification SpecC: Scenario C of the description, a publisher and one *)
(* subscriber joined by an edge of latency 50 ms, 0% loss.                 *)
(***************************************************************************)
ScenarioC ==
    {StoreOf(PairNodes, Link("P", "A", Ms(50), 0), "P", k, rf, 0) :
        k \in 1..MaxSimK, rf \in RfVals}

InitC == InitEngine(ScenarioC)

SpecC == InitC /\ [][Next]_vars

(***************************************************************************)
(* One run stepped to its end: initPropagation, then stepForward again and *)
(* again (src/unnamed/part_001 115-160): advanceTo to the time of the next *)
(* event while there is one.  A caller that keeps stepping is the fairness *)
(* condition; it is stated on StepTick, the part of a step that records    *)
(* the call made (the steps of NextRun that satisfy StepTick are those of  *)
(* StepForwardCall).                                                       *)
(***************************************************************************)
RunStart == lastCall.op = "none" /\ InitPropagationCall

StepForwardCall ==
    /\ lastCall.op # "none"
    /\ nextEventTime(eng) # None
    /\ AdvanceToAt(nextEventTime(eng)[1])

NextRun ==
    \/ RunStart
    \/ StepForwardCall

StepTick ==
    /\ lastCall.op # "none"
    /\ nextEventTime(eng) # None
    /\ before' = Some([e |-> eng, t |-> nextEventTime(eng)[1],
                       packetLoss |-> store.packetLoss])

SpecRun == Init /\ [][NextRun]_vars /\ WF_before(StepTick)

(***************************************************************************)
(* Runs on a triangle with two links of latency 0.                         *)
(***************************************************************************)
ZeroEdges(loss) ==
    Link("P", "A", 0, loss) \o Link("P", "B", 100, loss) \o Link("A", "B", 0, loss)

ZeroStores ==
    {StoreOf(TriangleNodes, ZeroEdges(loss), "P", MaxSimK, 133, loss) :
        loss \in {0, 50}}

InitZero == InitEngine(ZeroStores)

SpecZero == InitZero /\ [][Next]_vars

(***************************************************************************)
(* Runs in which a node uses up its push budget: the pair with the largest *)
(* burst (12 shards, then three resends) and the triangle, under PRNG      *)
(* streams of period up to MaxCapPeriod.                                   *)
(***************************************************************************)
MaxCapPeriod == 3

CapStores ==
    {StoreOf(PairNodes, PairEdges(0), "P", 2, 600, 0),
     StoreOf(TriangleNodes, TriangleEdges(0), "P", 2, 133, 0)}

InitCap == InitEngineOf(CapStores, MaxCapPeriod)

SpecCap == InitCap /\ [][Next]_vars

(***************************************************************************)
(* Reference linear algebra over the field GF(2^8) (FieldMul, FieldInv):   *)
(* the rank of a set of rows by Gaussian elimination.                      *)
(***************************************************************************)
RECURSIVE FieldReduce(_, _, _)
FieldReduce(piv, r, col) ==
    IF col > Len(r) THEN piv
    ELSE IF r[col] = 0 THEN FieldReduce(piv, r, col + 1)
    ELSE IF piv[col] # None
    THEN LET p == piv[col]
             factor == FieldMul(r[col], FieldInv[p[col]])
             r2 == [j \in 1..Len(r) |-> BitXor(r[j], FieldMul(factor, p[j]))]
         IN FieldReduce(piv, r2, col + 1)
    ELSE [piv EXCEPT ![col] = r]

RECURSIVE FieldEchelon(_, _)
FieldEchelon(rows, k) ==
    IF rows = {} THEN [c \in 1..k |-> None]
    ELSE LET r == CHOOSE x \in rows : TRUE
         IN FieldReduce(FieldEchelon(rows \ {r}, k), r, 1)

FieldRank(rows, k) ==
    Cardinality({c \in 1..k : FieldEchelon(rows, k)[c] # None})

\* row is a GF(2^8) linear combination of rows
InSpan(row, rows, k) == FieldRank(rows \cup {row}, k) = FieldRank(rows, k)

(***************************************************************************)
(* Claims                                                                  *)
(***************************************************************************)

\* (fireAt, seq) order, and the set of elements of a sequence
LexLess(a, b) == a.fireAt < b.fireAt \/ (a.fireAt = b.fireAt /\ a.seq < b.seq)
Elems(h) == {h[i] : i \in 1..Len(h)}

\* C1: gfMul(a,b) is the product of a and b in GF(2^8) modulo 0x11B, for
\* every pair of bytes (so gfMul(a,1) = a and gfMul(a,0) = 0).
C1_GfMulIsFieldProduct ==
    gfOut # None => gfOut = Some(FieldMul(gfA, gfB))

\* C2: a row exactly equal to one passed to addRow before never increases
\* rank: addRow returns false for it.
C2_SeenRowNeverUseful ==
    (addRet # None /\ lastRow \in rowsBefore) =>
        /\ addRet = Some(FALSE)
        /\ tracker.rank = prevTracker.rank

\* C3: addRow returns true exactly when its row is not a GF(2^8) linear
\* combination of the rows passed earlier, so rank is the number of linearly
\* independent rows received.
C3_AddRowDecidesIndependence ==
    addRet # None =>
        /\ addRet = Some(~InSpan(lastRow, rowsBefore, tracker.k))
        /\ tracker.rank = FieldRank(rowsSeen, tracker.k)

\* C4: Scenario A (k = 4, redundancyFactor 1.33, 0% loss, publisher P with
\* neighbours A, B, C at 10, 20 and 30 ms).  After initPropagation followed by
\* advanceTo(200) the 36 shard arrivals due by then (12 per subscriber, none
\* dropped) have been processed, the three subscribers hold the same tracker,
\* usefulTransmissions is the sum of their ranks, every subscriber has the
\* gossip message, and rlnc.allDone is true exactly when that common rank is
\* 4, which depends on the coding coefficients the PRNG gave.
ScenarioARun ==
    /\ store.nodes = StarNodes /\ eng.publisherId = Some("P") /\ eng.simK = 4
    /\ eng.simLossRate = 0 /\ lastCall.packetLoss = 0
    /\ lastCall.op = "advance" /\ lastCall.t = Ms(200) /\ before2 = None

EngineState(e) == [e EXCEPT !.newParticles = <<>>]

C5_AdvanceToComposes ==
    (/\ lastCall.op = "advance" /\ before2 # None
     /\ before2[1].t <= lastCall.t
     /\ before2[1].packetLoss = lastCall.packetLoss) =>
        LET single == advanceTo(before2[1].e, lastCall.t, lastCall.packetLoss,
                                store.nodes)
        IN /\ EngineState(eng) = EngineState(single)
           /\ single.newParticles = before[1].e.newParticles \o eng.newParticles
           /\ \A i, j \in 1..Len(single.newParticles) :
                 i # j => single.newParticles[i].seq # single.newParticles[j].seq

C5_Witness ==
    /\ lastCall.op = "advance" /\ before2 # None
    /\ before2[1].t < lastCall.t
    /\ before2[1].packetLoss = lastCall.packetLoss
    /\ Len(before[1].e.newParticles) > 0
    /\ Len(eng.newParticles) > 1
    /\ hasRemainingEvents(eng)

\* C6: determinism.  A run started by initPropagation on an engine that earlier
\* calls have used gives, after every advanceTo, the metrics, the per-node
\* delivery times and the ranks that the same calls with the same PRNG outputs
\* give on a freshly loaded engine.
Observables(e) ==
    [metrics |-> e.metrics,
     rlncNodeDeliveryTime |-> e.rlncNodeDeliveryTime,
     gossipNodeDeliveryTime |-> e.gossipNodeDeliveryTime,
     ranks |-> [i \in 1..Len(e.subscriberIds) |-> getRLNCRank(e, e.subscriberIds[i])],
     received |-> e.gossipReceived,
     queued |-> HeapLength(e.eventQueue),
     nextEventTime |-> nextEventTime(e)]

C6_Determinism == Observables(eng) = Observables(shadow)

C6_Witness ==
    /\ lastCall.op = "advance" /\ lastCall.dirty
    /\ Len(eng.metrics.rlnc.deliveredNodes) > 0
    /\ Len(eng.metrics.gossipsub.deliveredNodes) > 0
    /\ eng.metrics.gossipsub.duplicates > 0
    /\ Observables(eng) = Observables(shadow)
    /\ hasRemainingEvents(eng)

\* C7: a metrics object returned by advanceTo or getEngineMetrics is a value
\* copy: what its holder reads from it stays what it was when it was returned,
\* whatever advanceTo calls follow.
C7_SnapshotIsValueCopy ==
    held # None => Deref(held[1], eng) = held[1].atReturn

\* C8: advanceTo(t) processes exactly the events with fireAt <= t, in heap
\* order, those scheduled during the call included: every event it processed
\* has fireAt <= t, they were processed in increasing (fireAt, seq), every event
\* queued before the call with fireAt <= t was processed, the others are still
\* queued, and on return no queued event has fireAt <= t.
Processed(e) == {[fireAt |-> e.newParticles[i].startTime, seq |-> e.newParticles[i].seq] :
                    i \in 1..Len(e.newParticles)}
Queued(e) == {[fireAt |-> e.eventQueue.heap[i].fireAt, seq |-> e.eventQueue.heap[i].seq] :
                 i \in 1..Len(e.eventQueue.heap)}

C8_AdvanceToProcessesDue ==
    lastCall.op = "advance" =>
        /\ \A p \in Processed(eng) : p.fireAt <= lastCall.t
        /\ \A q \in Queued(eng) : q.fireAt > lastCall.t
        /\ \A i \in 1..(Len(eng.newParticles) - 1) :
              LexLess([fireAt |-> eng.newParticles[i].startTime,
                       seq |-> eng.newParticles[i].seq],
                      [fireAt |-> eng.newParticles[i + 1].startTime,
                       seq |-> eng.newParticles[i + 1].seq])
        /\ \A q \in Queued(before[1].e) :
              IF q.fireAt <= lastCall.t THEN q \in Processed(eng)
              ELSE q \in Queued(eng)
        /\ Cardinality(Processed(eng)) = Len(eng.newParticles)
        /\ Processed(eng) \cap Queued(eng) = {}

C8_Witness ==
    /\ lastCall.op = "advance"
    /\ \E p \in Processed(eng) : p.seq >= before[1].e.eventQueue.seqCounter
    /\ \E p \in Processed(eng) : p.seq < before[1].e.eventQueue.seqCounter
    /\ \E q \in Queued(eng) : q.seq < before[1].e.eventQueue.seqCounter


\* C9: each pop returns and removes the queued event with the smallest
\* (fireAt, seq), seq being the order of insertion; pops that follow one
\* another without a push come out sorted by (fireAt, seq), events of equal
\* fireAt first-pushed-first.

C9_PopYieldsMinimum ==
    /\ \A i, j \in 1..Len(queue.heap) :
          i # j => queue.heap[i].seq # queue.heap[j].seq
    /\ \A e \in Elems(queue.heap) : e.seq < queue.seqCounter
    /\ (popped = None /\ Len(queue.heap) > Len(heapBefore)) =>
          \E e \in Elems(queue.heap) :
             /\ e.seq = queue.seqCounter - 1
             /\ Elems(queue.heap) = Elems(heapBefore) \cup {e}
    /\ popped # None =>
          /\ popped[1] \in Elems(heapBefore)
          /\ \A e \in Elems(heapBefore) : e = popped[1] \/ LexLess(popped[1], e)
          /\ Elems(queue.heap) = Elems(heapBefore) \ {popped[1]}
          /\ Len(queue.heap) = Len(heapBefore) - 1
    /\ \A i \in 1..(Len(popLog) - 1) : LexLess(popLog[i], popLog[i + 1])

C9_Witness ==
    /\ Len(popLog) = 3
    /\ popLog[1].fireAt = popLog[2].fireAt
    /\ popLog[2].fireAt = popLog[3].fireAt
    /\ Len(queue.heap) > 0

\* C10: rank is the number of non-null pivot slots, never decreases from one
\* addRow call to the next, is at most k, and isFullRank holds exactly when
\* rank = k.
C10_RankInvariant ==
    /\ tracker.rank = Cardinality({c \in 1..tracker.k : tracker.pivots[c] # None})
    /\ tracker.rank <= tracker.k
    /\ isFullRank(tracker) <=> (tracker.rank = tracker.k)
    /\ prevTracker.rank <= tracker.rank

C10_Witness ==
    /\ tracker.k = 2 /\ tracker.rank = 2 /\ isFullRank(tracker)
    /\ prevTracker.rank = 2 /\ addRet = Some(FALSE)

\* C11: a full-rank tracker is terminal: an addRow call on a tracker whose
\* rank is k returns false, whatever the row, and leaves the rank and every
\* pivot slot as they were.
C11_FullRankIsTerminal ==
    (addRet # None /\ isFullRank(prevTracker))
        => (addRet = Some(FALSE) /\ tracker = prevTracker)

C11_Witness ==
    /\ addRet = Some(FALSE) /\ isFullRank(prevTracker) /\ prevTracker.k = 2
    /\ lastRow \notin rowsBefore
    /\ \A c \in 1..2 : lastRow[c] # 0 /\ lastRow # prevTracker.pivots[c]

\* The nodes of the current run other than its publisher.
NonPublishers(e) ==
    {e.simNodes[i].id : i \in 1..Len(e.simNodes)} \ {e.publisherId[1]}

\* C12: in the snapshot advanceTo returns, rlnc.allDone is true exactly when
\* every non-publisher node's tracker is full rank and gossipsub.allDone is
\* true exactly when every non-publisher node is in the received set, in
\* every topology, the one whose only node is the publisher included.
C12_AllDoneIffEveryNode ==
    (lastCall.op = "advance" /\ eng.publisherId # None) =>
        /\ eng.metrics.rlnc.allDone
              <=> \A id \in NonPublishers(eng) : isRLNCReconstructed(eng, id)
        /\ eng.metrics.gossipsub.allDone
              <=> \A id \in NonPublishers(eng) : hasGossipMessage(eng, id)

\* The parts of the engine state an initPropagation that does nothing
\* must leave alone.
RunState(e) ==
    [eventQueue |-> e.eventQueue, rlncTrackers |-> e.rlncTrackers,
     gossipReceived |-> e.gossipReceived, gossipForwarded |-> e.gossipForwarded,
     metrics |-> e.metrics]

\* C13: initPropagation with a publisher id that no node has never fails
\* in the code, so it has to be a no-op: the event queue, the rank trackers,
\* the gossip received and forwarded sets and the metrics are after the
\* call what they were before it.
C13_UnknownPublisherIsNoOp ==
    [][(lastCall'.op = "init"
        /\ FindNode(store.nodes, store.publisherNodeId) = None)
          => RunState(eng') = RunState(eng)]_vars

\* C14: initPropagation with k <= 0 is rejected and starts no run: while the
\* engine holds the parameters of such a call no node is reported full rank
\* and neither protocol is reported allDone.
C14_NonPositiveKStartsNoRun ==
    (eng.publisherId # None /\ eng.simK <= 0) =>
        /\ \A i \in 1..Len(eng.simNodes) :
              ~isRLNCReconstructed(eng, eng.simNodes[i].id)
        /\ ~eng.metrics.rlnc.allDone
        /\ ~eng.metrics.gossipsub.allDone

\* C15: gfInv(0) fails with an Error and returns no value; gfInv of a
\* nonzero byte, gfAdd of two bytes and gfMul of two bytes each return a byte.
C15_GfTotalExceptInvZero ==
    /\ gfInverse # None =>
          IF gfA = 0 THEN gfInverse = Some(GfError) ELSE gfInverse[1] \in Bytes
    /\ gfSum # None => gfSum[1] \in Bytes
    /\ gfOut # None => gfOut[1] \in Bytes

C15_Witness ==
    /\ gfA = 0 /\ gfB = 255 /\ gfInverse = Some(GfError)
    /\ gfSum = Some(255) /\ gfOut = Some(0)

\* C16: for every a in 1..255, gfMul(a, gfInv(a)) = 1: when gfInv(a) has
\* returned b and gfMul has been called on a and that b, gfMul returned 1.
C16_MulByInverseIsOne ==
    (gfA # 0 /\ gfInverse # None /\ gfOut # None /\ gfB = gfInverse[1])
        => gfOut = Some(1)

C16_Witness ==
    /\ gfA = 3 /\ gfInverse # None /\ gfB = gfInverse[1] /\ gfOut = Some(1)

\* C17: gfMul is commutative and associative and gfAdd is commutative and
\* its own inverse: for the bytes a, b of the calls made and for every byte
\* c, gfMul(a,b) = gfMul(b,a), gfMul(gfMul(a,b),c) = gfMul(a,gfMul(b,c)),
\* gfAdd(a,b) = gfAdd(b,a), and gfAdd(a,b) = 0 when a = b.
C17_FieldAlgebra ==
    /\ gfOut # None =>
          /\ gfOut[1] = gfMul(gfB, gfA)
          /\ \A c \in Bytes : gfMul(gfOut[1], c) = gfMul(gfA, gfMul(gfB, c))
    /\ gfSum # None =>
          /\ gfSum[1] = gfAdd(gfB, gfA)
          /\ (gfA = gfB => gfSum[1] = 0)

C17_Witness ==
    /\ gfA = 2 /\ gfB = 3 /\ gfOut # None /\ gfOut[1] # 0
    /\ gfSum = Some(1)

\* the counters of a metrics object are consistent
CountersConsistent(m) ==
    /\ m.rlnc.totalTransmissions >= m.rlnc.usefulTransmissions
    /\ m.gossipsub.totalTransmissions >= m.gossipsub.usefulTransmissions
    /\ m.gossipsub.duplicates + m.gossipsub.usefulTransmissions
          <= m.gossipsub.totalTransmissions

\* C18: in every reachable engine state and in every snapshot (as it was
\* returned and as its holder reads it later) totalTransmissions is at least
\* usefulTransmissions for both protocols, and for gossip duplicates plus
\* usefulTransmissions is at most totalTransmissions.
C18_CountersConsistent ==
    /\ CountersConsistent(eng.metrics)
    /\ latest # None => /\ CountersConsistent(latest[1].atReturn)
                         /\ CountersConsistent(Deref(latest[1], eng))
    /\ held # None => /\ CountersConsistent(held[1].atReturn)
                       /\ CountersConsistent(Deref(held[1], eng))

C18_Witness ==
    /\ held # None /\ latest # None
    /\ eng.metrics.gossipsub.duplicates > 0
    /\ eng.metrics.gossipsub.usefulTransmissions > 0
    /\ eng.metrics.gossipsub.totalTransmissions
          > eng.metrics.gossipsub.duplicates + eng.metrics.gossipsub.usefulTransmissions
    /\ eng.metrics.rlnc.usefulTransmissions > 0
    /\ eng.metrics.rlnc.totalTransmissions > eng.metrics.rlnc.usefulTransmissions

\* the shards of the last advanceTo that reached node id and were fed to
\* its tracker (neither dropped nor redundant), as indices of newParticles
FedShards(e, id) ==
    {i \in 1..Len(e.newParticles) :
        /\ e.newParticles[i].protocol = "rlnc"
        /\ e.newParticles[i].toNode = id
        /\ ~e.newParticles[i].dropped
        /\ ~e.newParticles[i].isRedundant}

\* C19: a node has a recorded RLNC delivery time only if its tracker is full
\* rank; the time is the fireAt of the event that first made the node full
\* rank; the node is in rlnc.deliveredNodes exactly once; and a recorded
\* time is not changed by later calls of the run.
C19_DeliveryTimeRecordedOnce ==
    LET times == eng.rlncNodeDeliveryTime
        delivered == eng.metrics.rlnc.deliveredNodes
    IN /\ \A id \in DOMAIN times : isRLNCReconstructed(eng, id)
       /\ \A i, j \in 1..Len(delivered) : delivered[i] = delivered[j] => i = j
       /\ SeqToSet(delivered) = DOMAIN times
       /\ lastCall.op = "advance" =>
             \A id \in DOMAIN eng.rlncTrackers :
                LET was == before[1].e
                    fed == FedShards(eng, id)
                IN IF id \in DOMAIN was.rlncNodeDeliveryTime
                   THEN times[id] = was.rlncNodeDeliveryTime[id]
                   ELSE (isRLNCReconstructed(eng, id) /\ ~isRLNCReconstructed(was, id))
                        => /\ id \in DOMAIN times
                           /\ fed # {}
                           /\ times[id] = eng.newParticles[
                                  CHOOSE i \in fed : \A j \in fed : j <= i].startTime

C19_Witness ==
    /\ lastCall.op = "advance"
    /\ \E id \in DOMAIN eng.rlncNodeDeliveryTime :
          /\ id \in DOMAIN before[1].e.rlncNodeDeliveryTime
          /\ \E i \in 1..Len(eng.newParticles) :
                /\ eng.newParticles[i].protocol = "rlnc"
                /\ eng.newParticles[i].toNode = id
                /\ eng.newParticles[i].isRedundant
                /\ eng.newParticles[i].startTime > eng.rlncNodeDeliveryTime[id]
    /\ \E id \in DOMAIN eng.rlncNodeDeliveryTime :
          /\ id \notin DOMAIN before[1].e.rlncNodeDeliveryTime
          /\ FedShards(eng, id) # {}

\* the transmissions the engine knows of: the events still queued and the
\* ones the last advanceTo processed
Transmissions(e) ==
    {[fromNode |-> e.eventQueue.heap[i].fromNode,
      toNode |-> e.eventQueue.heap[i].toNode,
      dropped |-> e.eventQueue.heap[i].dropped] : i \in 1..Len(e.eventQueue.heap)}
    \cup {[fromNode |-> e.newParticles[i].fromNode,
            toNode |-> e.newParticles[i].toNode,
            dropped |-> e.newParticles[i].dropped] : i \in 1..Len(e.newParticles)}

\* C20: whether a transmission is dropped is governed by the packetLossRate
\* of the edge it travels: over an edge (as the engine holds it) with
\* packetLossRate 0 no transmission is dropped, over an edge with
\* packetLossRate 1 (100 percent) every transmission is dropped.
C20_EdgeLossRateGovernsDrops ==
    \A tr \in Transmissions(eng) :
        LET edge == eng.edgeLookup[<<tr.fromNode, tr.toNode>>]
        IN /\ edge.packetLossRate = 0 => ~tr.dropped
           /\ edge.packetLossRate = 100 => tr.dropped

\* a run of Scenario B: the star, started at 100% loss
ScenarioBRun ==
    /\ store.nodes = StarNodes /\ eng.publisherId = Some("P")
    /\ eng.simK = 4 /\ eng.simLossRate = 100

\* nobody but the publisher has anything, and nothing is reported done
NothingDelivered(e, m) ==
    /\ \A id \in {"A", "B", "C"} :
          ~isRLNCReconstructed(e, id) /\ ~hasGossipMessage(e, id)
    /\ ~m.rlnc.allDone /\ ~m.gossipsub.allDone
    /\ m.rlnc.deliveredNodes = <<>> /\ m.gossipsub.deliveredNodes = <<>>

\* C21: Scenario B.  In a run started at 100% loss on the star, whatever
\* advanceTo calls are made, each call that finds due events processes them
\* (the totalTransmissions counters grow by the number of events processed),
\* no subscriber reaches full rank or receives the gossip message, and
\* allDone is false for both protocols in the engine and in every snapshot.
C21_ScenarioB ==
    ScenarioBRun =>
        /\ NothingDelivered(eng, eng.metrics)
        /\ latest # None => NothingDelivered(eng, latest[1].atReturn)
        /\ held # None => NothingDelivered(eng, held[1].atReturn)
        /\ lastCall.op = "advance" =>
              LET was == before[1].e
              IN /\ EventDue(was, lastCall.t) => Len(eng.newParticles) > 0
                 /\ eng.metrics.rlnc.totalTransmissions
                       + eng.metrics.gossipsub.totalTransmissions
                     = was.metrics.rlnc.totalTransmissions
                       + was.metrics.gossipsub.totalTransmissions
                       + Len(eng.newParticles)

C21_Witness ==
    /\ ScenarioBRun /\ lastCall.op = "advance" /\ lastCall.packetLoss = 100
    /\ held # None /\ before2 # None
    /\ eng.metrics.rlnc.totalTransmissions > before[1].e.metrics.rlnc.totalTransmissions
    /\ before[1].e.metrics.rlnc.totalTransmissions > 0
    /\ eng.metrics.gossipsub.totalTransmissions > 0
    /\ ~hasRemainingEvents(eng)

\* a run of Scenario C, looked at after an advanceTo
ScenarioCRun ==
    /\ store.nodes = PairNodes /\ eng.publisherId = Some("P")
    /\ MapHas(eng.edgeLookup, <<"P", "A">>)
    /\ eng.edgeLookup[<<"P", "A">>].latencyMs = Ms(50)
    /\ eng.simLossRate = 0 /\ lastCall.op = "advance"

\* C22: Scenario C.  Before simulated time 50 nothing has been processed;
\* advanceTo(50) processes exactly one shard and one gossip message, the
\* shard is useful and the message is delivered; and from then on the
\* subscriber's gossip delivery time is 50 and the first shard processed,
\* the useful one, has fire time 50.
C22_ScenarioC ==
    ScenarioCRun =>
        LET m == eng.metrics
            was == before[1].e
        IN IF lastCall.t < Ms(50)
           THEN /\ m.rlnc.totalTransmissions = 0
                /\ m.gossipsub.totalTransmissions = 0
                /\ ~hasGossipMessage(eng, "A") /\ getRLNCRank(eng, "A") = 0
           ELSE /\ MapGet(eng.gossipNodeDeliveryTime, "A", -1) = Ms(50)
                /\ m.gossipsub.lastDeliverySimMs = Some(Ms(50))
                /\ m.gossipsub.deliveredNodes = <<"A">>
                /\ m.rlnc.usefulTransmissions >= 1
                /\ lastCall.t = Ms(50) =>
                      /\ m.rlnc.totalTransmissions = 1
                      /\ m.rlnc.usefulTransmissions = 1
                      /\ m.gossipsub.totalTransmissions = 1
                      /\ m.gossipsub.usefulTransmissions = 1
                /\ was.metrics.rlnc.totalTransmissions = 0 =>
                      LET first == CHOOSE i \in FedShards(eng, "A") :
                                      \A j \in FedShards(eng, "A") : i <= j
                      IN /\ FedShards(eng, "A") # {}
                         /\ eng.newParticles[first].startTime = Ms(50)
                         /\ \A i \in 1..Len(eng.newParticles) :
                               eng.newParticles[i].startTime >= Ms(50)

C22_Witness ==
    /\ ScenarioCRun /\ lastCall.t = Ms(50) /\ eng.simK = 2
    /\ MapGet(eng.gossipNodeDeliveryTime, "A", -1) = Ms(50)
    /\ eng.metrics.rlnc.usefulTransmissions = 1
    /\ getRLNCRank(eng, "A") = 1
    /\ hasRemainingEvents(eng)

\* C23: clearEngine discards the state of the run and is idempotent: after
\* it hasRemainingEvents is false, nextEventTime is null, every node id has
\* rank 0, is not full rank and has no gossip message, the metrics are the
\* empty ones (counters zero, deliveredNodes empty), and clearEngine applied
\* again leaves the engine as it is.
C23_ClearEngineDiscardsRun ==
    lastCall.op = "clear" =>
        /\ ~hasRemainingEvents(eng)
        /\ nextEventTime(eng) = None
        /\ \A id \in {store.nodes[i].id : i \in 1..Len(store.nodes)}
                       \cup {store.publisherNodeId} :
              /\ getRLNCRank(eng, id) = 0
              /\ ~isRLNCReconstructed(eng, id)
              /\ ~hasGossipMessage(eng, id)
        /\ eng.metrics = emptyEngineMetrics
        /\ clearEngine(eng) = eng

C23_Witness ==
    /\ lastCall.op = "clear"
    /\ eng.edgeLookup # EmptyMap /\ eng.rng.pos # 0
    /\ eng.simK = 2 /\ eng.simLossRate = 50
    /\ eng.eventQueue = NewHeap

\* the multiple of 0.1 ms nearest to t, the upper one when t is half way
NearestTenth(t) ==
    CHOOSE m \in {10 * q : q \in 0..((t \div 10) + 1)} : m - 5 <= t /\ t < m + 5

\* the nodes whose tracker is full rank, and the nodes other than the
\* publisher that hold the gossip message
FullRankNodes(e) == {id \in DOMAIN e.rlncTrackers : isFullRank(e.rlncTrackers[id])}
GossipHolders(e) == e.gossipReceived \ {e.publisherId[1]}

\* lastDeliverySimMs of both protocols is null without a first-arrival time
\* and else the latest of these times as seen through view
LastDeliveryIs(e, view(_)) ==
    /\ e.metrics.rlnc.lastDeliverySimMs =
          IF DOMAIN e.rlncNodeDeliveryTime = {} THEN None
          ELSE Some(view(MaxTime(e.rlncNodeDeliveryTime)))
    /\ e.metrics.gossipsub.lastDeliverySimMs =
          IF DOMAIN e.gossipNodeDeliveryTime = {} THEN None
          ELSE Some(view(MaxTime(e.gossipNodeDeliveryTime)))

CeilOfHundredths(x) == CHOOSE c \in 0..x : 100 * c >= x /\ 100 * (c - 1) < x

\* C25: for k >= 1, redundancyFactor >= 1 and every loss rate from 0 to
\* 100%, the size n of the initial burst satisfies k <= n <= 6k, and
\* n = ceil(k * redundancyFactor) when the loss rate is 0 and that value is
\* at most 6k.
C25_BurstSizeBounds ==
    shardCount # None =>
        LET k == shardArgs.k
            n == shardCount[1]
            plain == CeilOfHundredths(k * shardArgs.redundancyFactor)
        IN /\ k <= n /\ n <= 6 * k
           /\ (shardArgs.packetLoss = 0 /\ plain <= 6 * k) => n = plain

C25_Witness ==
    /\ shardArgs = [k |-> 4, redundancyFactor |-> 133, packetLoss |-> 0]
    /\ shardCount = Some(6)

\* C26: the tables are built from a generator of the multiplicative group:
\* EXP_TABLE[0..254] are nonzero and pairwise distinct (here for the indices
\* gfA and gfB), and EXP_TABLE[LOG_TABLE[a]] = a for every nonzero byte a
\* (here gfA).
C26_TablesFromGenerator ==
    /\ gfA <= 254 => EXP_TABLE[gfA] \in 1..255
    /\ (gfA <= 254 /\ gfB <= 254 /\ gfA # gfB) => EXP_TABLE[gfA] # EXP_TABLE[gfB]
    /\ gfA # 0 => EXP_TABLE[LOG_TABLE[gfA]] = gfA

\* the shards among the events processed by the last advanceTo
ShardsProcessed(e) ==
    {i \in 1..Len(e.newParticles) : e.newParticles[i].protocol = "rlnc"}

\* the queued shards from node r to node nb that were pushed after the
\* queue's sequence counter stood at seq0, as indices of the heap
ShardsPushedSince(e, seq0, r, nb) ==
    {i \in 1..Len(e.eventQueue.heap) :
        /\ e.eventQueue.heap[i].seq >= seq0
        /\ e.eventQueue.heap[i].protocol = "rlnc"
        /\ e.eventQueue.heap[i].fromNode = r
        /\ e.eventQueue.heap[i].toNode = nb}

\* the one shard p an advanceTo processed was delivered to a receiver that
\* was not full rank and had push budget left; nb is a neighbour of the
\* receiver that a relay from it has to serve
RelayCase(p, nb) ==
    LET was == before[1].e
        r == p.toNode
        node == FindNode(store.nodes, r)
    IN /\ ~p.dropped /\ ~p.isRedundant
       /\ MapHas(was.rlncTrackers, r)
       /\ MapGet(was.rlncRecodePushes, r, 0) < MAX_RLNC_PUSHES_PER_NODE
       /\ node # None
       /\ nb \in SeqToSet(node[1].neighbors)
       /\ nb # p.fromNode
       /\ Some(nb) # eng.publisherId
       /\ ~isRLNCReconstructed(eng, nb)
       /\ MapHas(eng.edgeLookup, <<r, nb>>)

\* C27: when an advanceTo has processed one shard, not dropped, with fire
\* time T, at a receiver that was not full rank before and whose push budget
\* was not exhausted, then for each neighbour of the receiver that is neither
\* the sender nor the publisher, is not full rank and has an edge from the
\* receiver, exactly one new shard to that neighbour is in the queue, with
\* fire time T + 0.5 ms + the latency of that edge.
C27_RelaySchedulesOneShard ==
    (lastCall.op = "advance" /\ Cardinality(ShardsProcessed(eng)) = 1) =>
        LET p == eng.newParticles[CHOOSE i \in ShardsProcessed(eng) : TRUE]
        IN \A nb \in DOMAIN eng.rlncTrackers :
              RelayCase(p, nb) =>
                 LET new == ShardsPushedSince(eng, before[1].e.eventQueue.seqCounter,
                                              p.toNode, nb)
                 IN /\ Cardinality(new) = 1
                    /\ \A i \in new :
                          eng.eventQueue.heap[i].fireAt =
                             p.startTime + RelayDelay
                                + eng.edgeLookup[<<p.toNode, nb>>].latencyMs

\* C28: no shard in the queue targets the publisher; and the shards a relay
\* schedules (those pushed by an advanceTo that processed one shard) go
\* neither to the node that shard came from nor to a node that is full rank
\* when they are scheduled.
C28_RelayTargets ==
    /\ \A i \in 1..Len(eng.eventQueue.heap) :
          eng.eventQueue.heap[i].protocol = "rlnc"
             => Some(eng.eventQueue.heap[i].toNode) # eng.publisherId
    /\ (lastCall.op = "advance" /\ Cardinality(ShardsProcessed(eng)) = 1) =>
          LET p == eng.newParticles[CHOOSE i \in ShardsProcessed(eng) : TRUE]
          IN \A i \in 1..Len(eng.eventQueue.heap) :
                LET ev == eng.eventQueue.heap[i]
                IN (ev.protocol = "rlnc" /\ ev.seq >= before[1].e.eventQueue.seqCounter)
                      => /\ ev.fromNode = p.toNode
                         /\ ev.toNode # p.fromNode
                         /\ ~isRLNCReconstructed(eng, ev.toNode)

C28_Witness ==
    /\ lastCall.op = "advance" /\ Cardinality(ShardsProcessed(eng)) = 1
    /\ LET p == eng.newParticles[CHOOSE i \in ShardsProcessed(eng) : TRUE]
       IN /\ Some(p.fromNode) # eng.publisherId
          /\ ~p.dropped /\ ~p.isRedundant
          /\ ~isRLNCReconstructed(eng, p.fromNode)
          /\ MapGet(eng.rlncRecodePushes, p.toNode, 0)
                > MapGet(before[1].e.rlncRecodePushes, p.toNode, 0)
    /\ \E i \in 1..Len(eng.eventQueue.heap) :
          /\ eng.eventQueue.heap[i].protocol = "rlnc"
          /\ Some(eng.eventQueue.heap[i].fromNode) # eng.publisherId

\* the queued events that are the shard of particle p (the id of a particle
\* is made of these fields)
EventsOfParticle(q, p) ==
    {i \in 1..Len(q.heap) :
        /\ q.heap[i].protocol = "rlnc"
        /\ q.heap[i].fromNode = p.fromNode /\ q.heap[i].toNode = p.toNode
        /\ q.heap[i].shardIndex = p.shardIndex /\ q.heap[i].fireAt = p.startTime
        /\ q.heap[i].dropped = p.dropped}

\* the one shard p an advanceTo processed arrived, not dropped, at a node
\* that was not full rank and had used up its push budget
AtCapCase(p) ==
    /\ ~p.dropped /\ ~p.isRedundant
    /\ MapHas(before[1].e.rlncTrackers, p.toNode)
    /\ MapGet(before[1].e.rlncRecodePushes, p.toNode, 0) >= MAX_RLNC_PUSHES_PER_NODE

\* C29: no node's count of recode push rounds exceeds
\* MAX_RLNC_PUSHES_PER_NODE, a processed shard adds at most one round, and a
\* shard arriving at a node whose count has reached the cap is still added to
\* the node's tracker but schedules no shard and leaves the count alone.
C29_PushBudget ==
    /\ \A id \in DOMAIN eng.rlncRecodePushes :
          eng.rlncRecodePushes[id] <= MAX_RLNC_PUSHES_PER_NODE
    /\ (lastCall.op = "advance" /\ Cardinality(ShardsProcessed(eng)) = 1) =>
          LET p == eng.newParticles[CHOOSE i \in ShardsProcessed(eng) : TRUE]
              was == before[1].e
          IN /\ \A id \in DOMAIN eng.rlncRecodePushes :
                   /\ eng.rlncRecodePushes[id] <= MapGet(was.rlncRecodePushes, id, 0) + 1
                   /\ id # p.toNode =>
                         eng.rlncRecodePushes[id] = MapGet(was.rlncRecodePushes, id, 0)
             /\ AtCapCase(p) =>
                   /\ eng.rlncRecodePushes = was.rlncRecodePushes
                   /\ \A i \in 1..Len(eng.eventQueue.heap) :
                         eng.eventQueue.heap[i].protocol = "rlnc"
                            => eng.eventQueue.heap[i].seq < was.eventQueue.seqCounter
                   /\ \E i \in EventsOfParticle(was.eventQueue, p) :
                         eng.rlncTrackers[p.toNode] =
                            addRow(was.rlncTrackers[p.toNode],
                                   was.eventQueue.heap[i].codingVector).t

C29_Witness ==
    /\ lastCall.op = "advance" /\ Cardinality(ShardsProcessed(eng)) = 1
    /\ LET p == eng.newParticles[CHOOSE i \in ShardsProcessed(eng) : TRUE]
       IN /\ AtCapCase(p)
          /\ eng.rlncTrackers[p.toNode].rank > before[1].e.rlncTrackers[p.toNode].rank

\* C30: in a run that is stepped on and on (advanceTo to the time of the
\* next event), the event queue is empty at some point: hasRemainingEvents()
\* is false.
C30_RunTerminates ==
    [](lastCall.op # "none" => <>(~hasRemainingEvents(eng)))

C30_Witness ==
    /\ lastCall.op = "advance" /\ ~hasRemainingEvents(eng)
    /\ \E id \in DOMAIN eng.rlncRecodePushes : eng.rlncRecodePushes[id] > 0
    /\ \E id \in DOMAIN eng.gossipRetries : eng.gossipRetries[id] > 0
    /\ eng.metrics.rlnc.totalTransmissions > 20

\* the messages among the events processed by the last advanceTo
MessagesProcessed(e) ==
    {i \in 1..Len(e.newParticles) : e.newParticles[i].protocol = "gossipsub"}

\* the queued messages that were pushed after the queue's sequence counter
\* stood at seq0, as indices of the heap
MessagesPushedSince(e, seq0) ==
    {i \in 1..Len(e.eventQueue.heap) :
        /\ e.eventQueue.heap[i].seq >= seq0
        /\ e.eventQueue.heap[i].protocol = "gossipsub"}

\* the one message p an advanceTo processed was the first to reach its node
FirstDelivery(p) ==
    /\ ~p.dropped
    /\ p.toNode \notin before[1].e.gossipReceived
    /\ FindNode(store.nodes, p.toNode) # None

\* C31: when an advanceTo has processed one message, with fire time T, the
\* messages it scheduled are: if the message was the first not dropped to
\* reach its node, for every neighbour with an edge one at T + latency +
\* storeForwardDelay unless the neighbour is the sender, and one retry at
\* T + GOSSIP_RETRY_INTERVAL + latency + storeForwardDelay (the node's retry
\* count staying within MAX_GOSSIP_RETRIES); in every other case -- a later
\* arrival at the node, an arrival at the publisher, a dropped one -- none.
C31_GossipForwardsOnce ==
    (lastCall.op = "advance" /\ Cardinality(MessagesProcessed(eng)) = 1) =>
        LET p == eng.newParticles[CHOOSE i \in MessagesProcessed(eng) : TRUE]
            new == MessagesPushedSince(eng, before[1].e.eventQueue.seqCounter)
            heap == eng.eventQueue.heap
            delay == StoreForwardDelay(eng.simK)
        IN IF FirstDelivery(p)
           THEN LET nbs == SeqToSet(FindNode(store.nodes, p.toNode)[1].neighbors)
                IN /\ Some(p.toNode) # eng.publisherId
                   /\ \A i \in new : heap[i].fromNode = p.toNode /\ heap[i].toNode \in nbs
                   /\ MapGet(eng.gossipRetries, p.toNode, 0) <= MAX_GOSSIP_RETRIES
                   /\ \A nb \in nbs :
                         LET to == {i \in new : heap[i].toNode = nb}
                             lat == eng.edgeLookup[<<p.toNode, nb>>].latencyMs
                             times == (IF nb # p.fromNode
                                       THEN {p.startTime + lat + delay} ELSE {})
                                      \cup {p.startTime + Ms(GOSSIP_RETRY_INTERVAL)
                                               + lat + delay}
                         IN IF MapHas(eng.edgeLookup, <<p.toNode, nb>>)
                            THEN /\ {heap[i].fireAt : i \in to} = times
                                 /\ Cardinality(to) = Cardinality(times)
                            ELSE to = {}
           ELSE new = {}

C31_Witness ==
    /\ lastCall.op = "advance" /\ Cardinality(MessagesProcessed(eng)) = 1
    /\ LET p == eng.newParticles[CHOOSE i \in MessagesProcessed(eng) : TRUE]
       IN /\ FirstDelivery(p)
          /\ Cardinality(MessagesPushedSince(eng, before[1].e.eventQueue.seqCounter)) >= 3

\* the engine's state but for its queue, its transmission totals, the
\* particles of the call and what advanceTo recomputes at its end
ProtocolState(e) ==
    [e EXCEPT !.eventQueue = NewHeap,
              !.newParticles = <<>>,
              !.metrics.rlnc.totalTransmissions = 0,
              !.metrics.gossipsub.totalTransmissions = 0,
              !.metrics.rlnc.allDone = FALSE,
              !.metrics.gossipsub.allDone = FALSE,
              !.metrics.rlnc.lastDeliverySimMs = None,
              !.metrics.gossipsub.lastDeliverySimMs = None]

\* the last advanceTo processed events, all of them dropped
OnlyDroppedProcessed ==
    /\ lastCall.op = "advance"
    /\ Len(eng.newParticles) > 0
    /\ \A i \in 1..Len(eng.newParticles) : eng.newParticles[i].dropped

\* C32: an advanceTo that processed dropped events only has added their
\* number to the totalTransmissions of their protocols and has left all else
\* alone: trackers, received and forwarded sets, delivery times, useful and
\* duplicate counters, push and retry counts are as before, no event was
\* scheduled (the queue lost the events processed and its sequence counter
\* stands), and the PRNG is where it was.
C32_DroppedEventOnlyCounted ==
    OnlyDroppedProcessed =>
        LET was == before[1].e
        IN /\ ProtocolState(eng) = ProtocolState(was)
           /\ eng.rng = was.rng
           /\ eng.eventQueue.seqCounter = was.eventQueue.seqCounter
           /\ Len(eng.eventQueue.heap)
                 = Len(was.eventQueue.heap) - Len(eng.newParticles)
           /\ eng.metrics.rlnc.totalTransmissions
                 = was.metrics.rlnc.totalTransmissions
                     + Cardinality(ShardsProcessed(eng))
           /\ eng.metrics.gossipsub.totalTransmissions
                 = was.metrics.gossipsub.totalTransmissions
                     + Cardinality(MessagesProcessed(eng))

C32_Witness ==
    /\ OnlyDroppedProcessed
    /\ ShardsProcessed(eng) # {} /\ MessagesProcessed(eng) # {}
    /\ eng.metrics.rlnc.usefulTransmissions > 0

\* particle p is of an event for a receiver that was terminal before the call:
\* a shard for a full-rank node, a message for a node that has the message
TerminalArrival(p, was) ==
    /\ ~p.dropped
    /\ IF p.protocol = "rlnc"
       THEN MapHas(was.rlncTrackers, p.toNode) /\ isFullRank(was.rlncTrackers[p.toNode])
       ELSE p.toNode \in was.gossipReceived

\* the last advanceTo processed events, all of them arrivals at terminal receivers
OnlyTerminalProcessed ==
    /\ lastCall.op = "advance"
    /\ Len(eng.newParticles) > 0
    /\ \A i \in 1..Len(eng.newParticles) :
          TerminalArrival(eng.newParticles[i], before[1].e)

\* the latest start time among the particles of ps (indices) for node id
LatestArrival(e, ps, id) ==
    LET ts == {e.newParticles[i].startTime : i \in {j \in ps : e.newParticles[j].toNode = id}}
    IN CHOOSE t \in ts : \A u \in ts : u <= t

\* what such a call may touch of the two maps of last redundant and last
\* duplicate times: the entries of the receivers, set to the arrival's time
TimesRecorded(now, was, ps) ==
    /\ DOMAIN now = DOMAIN was \cup {eng.newParticles[i].toNode : i \in ps}
    /\ \A id \in DOMAIN now :
          now[id] = IF \E i \in ps : eng.newParticles[i].toNode = id
                    THEN LatestArrival(eng, ps, id) ELSE was[id]

TerminalFrame(was) ==
    /\ eng.rng = was.rng
    /\ eng.eventQueue.seqCounter = was.eventQueue.seqCounter
    /\ Len(eng.eventQueue.heap) = Len(was.eventQueue.heap) - Len(eng.newParticles)
    /\ \A i \in 1..Len(eng.newParticles) : eng.newParticles[i].isRedundant
    /\ eng.metrics.rlnc.totalTransmissions
          = was.metrics.rlnc.totalTransmissions + Cardinality(ShardsProcessed(eng))
    /\ eng.metrics.gossipsub.totalTransmissions
          = was.metrics.gossipsub.totalTransmissions + Cardinality(MessagesProcessed(eng))
    /\ eng.metrics.gossipsub.duplicates
          = was.metrics.gossipsub.duplicates + Cardinality(MessagesProcessed(eng))
    /\ TimesRecorded(eng.rlncLastRedundantSimTime, was.rlncLastRedundantSimTime,
                     ShardsProcessed(eng))

\* C33: an advanceTo that processed only arrivals, not dropped, at terminal
\* receivers has scheduled no event, drawn nothing from the PRNG and changed
\* no tracker, set, delivery time or useful counter; each shard is marked
\* redundant and counted in rlnc.totalTransmissions, the receiver's time of
\* last redundant shard being set; each message is counted in
\* gossipsub.totalTransmissions and in duplicates, the receiver's time of last
\* duplicate being set.
C33_TerminalArrivalFrame ==
    OnlyTerminalProcessed =>
        LET was == before[1].e
        IN /\ TerminalFrame(was)
           /\ TimesRecorded(eng.gossipLastDuplicateSimTime,
                            was.gossipLastDuplicateSimTime, MessagesProcessed(eng))
           /\ [ProtocolState(eng) EXCEPT !.metrics.gossipsub.duplicates = 0,
                                         !.rlncLastRedundantSimTime = EmptyMap,
                                         !.gossipLastDuplicateSimTime = EmptyMap]
              = [ProtocolState(was) EXCEPT !.metrics.gossipsub.duplicates = 0,
                                           !.rlncLastRedundantSimTime = EmptyMap,
                                           !.gossipLastDuplicateSimTime = EmptyMap]

C33_Witness ==
    /\ OnlyTerminalProcessed
    /\ ShardsProcessed(eng) # {} /\ MessagesProcessed(eng) # {}

\* C33 as first stated: for a message, totalTransmissions and duplicates are
\* all that changes
C33_Original ==
    OnlyTerminalProcessed =>
        LET was == before[1].e
        IN /\ TerminalFrame(was)
           /\ [ProtocolState(eng) EXCEPT !.metrics.gossipsub.duplicates = 0,
                                         !.rlncLastRedundantSimTime = EmptyMap]
              = [ProtocolState(was) EXCEPT !.metrics.gossipsub.duplicates = 0,
                                           !.rlncLastRedundantSimTime = EmptyMap]

\* C34: no addRow call raises the error of gfInv(0), and every pivot row
\* the tracker holds has a nonzero entry in its own column (the only values
\* addRow hands to gfInv).
C34_AddRowNeverInvertsZero ==
    /\ lastRow # None => ~addRow(prevTracker, lastRow).threw
    /\ \A col \in 1..tracker.k :
          tracker.pivots[col] # None => tracker.pivots[col][col] # 0

C34_Witness ==
    /\ addRet = Some(TRUE) /\ tracker.k = 2
    /\ prevTracker.pivots[1] # None /\ lastRow[1] # 0
    /\ tracker.pivots[2] # None /\ tracker.pivots[2] # lastRow

\* the sum of the ranks of the trackers of the nodes ids
RECURSIVE RankSum(_, _)
RankSum(e, ids) ==
    IF ids = {} THEN 0
    ELSE LET id == CHOOSE x \in ids : TRUE
         IN e.rlncTrackers[id].rank + RankSum(e, ids \ {id})

\* C35: rlnc.usefulTransmissions is the sum of the ranks of the trackers
\* (there is one for every node but the publisher).
C35_UsefulIsRankSum ==
    /\ eng.metrics.rlnc.usefulTransmissions = RankSum(eng, DOMAIN eng.rlncTrackers)
    /\ \A id \in DOMAIN eng.rlncTrackers : Some(id) # eng.publisherId

C35_Witness ==
    /\ eng.metrics.rlnc.usefulTransmissions >= 3
    /\ Cardinality({id \in DOMAIN eng.rlncTrackers : eng.rlncTrackers[id].rank > 0}) >= 2
    /\ \E id \in DOMAIN eng.rlncTrackers :
          /\ ~isFullRank(eng.rlncTrackers[id])
          /\ Cardinality(FedShards(eng, id)) > eng.rlncTrackers[id].rank

\* C36: the forwarded set is the received set; after initPropagation both
\* hold the publisher alone, an advanceTo only adds to them; and
\* gossipsub.usefulTransmissions is the number of nodes in the received set
\* other than the publisher.
C36_ForwardedIsReceived ==
    /\ eng.gossipForwarded = eng.gossipReceived
    /\ eng.metrics.gossipsub.usefulTransmissions
          = Cardinality({id \in eng.gossipReceived : Some(id) # eng.publisherId})
    /\ lastCall.op = "init" => eng.gossipReceived = {store.publisherNodeId}
    /\ lastCall.op = "advance" =>
          /\ before[1].e.gossipReceived \subseteq eng.gossipReceived
          /\ before[1].e.gossipForwarded \subseteq eng.gossipForwarded

C36_Witness ==
    /\ lastCall.op = "advance"
    /\ Cardinality(eng.gossipReceived) = 3
    /\ Cardinality(before[1].e.gossipReceived) = 2
    /\ lastCall.dirty

\* C37: allDone of a protocol, once true after an advanceTo, is true after
\* the next advanceTo of the run (and so after every later one): the engine
\* an advanceTo starts from carries the value the advanceTo before it
\* computed, or false when the run has just been initialised.
C37_AllDoneMonotonic ==
    lastCall.op = "advance" =>
        /\ before[1].e.metrics.rlnc.allDone => eng.metrics.rlnc.allDone
        /\ before[1].e.metrics.gossipsub.allDone => eng.metrics.gossipsub.allDone

C37_Witness ==
    /\ lastCall.op = "advance" /\ before2 # None
    /\ before[1].e.metrics.rlnc.allDone /\ before[1].e.metrics.gossipsub.allDone
    /\ ~before2[1].e.metrics.rlnc.allDone
    /\ Len(eng.newParticles) > 0
    /\ Len(eng.subscriberIds) = 2

\* the queued events that were pushed after the queue's sequence counter
\* stood at seq0, as indices of the heap
EventsPushedSince(e, seq0) ==
    {i \in 1..Len(e.eventQueue.heap) : e.eventQueue.heap[i].seq >= seq0}

\* C38: after an advanceTo to time t, the events it processed are in
\* non-decreasing order of fire time and none is later than t, every event
\* left in the queue is later than t (so what later calls process comes
\* after all that was processed), an event both scheduled and processed in
\* the call comes later than an arrival, processed before it, at the node
\* that sent it, and, the call having processed one event, with fire time T,
\* every event it scheduled has a fire time greater than T.
C38_TimeNeverGoesBack ==
    lastCall.op = "advance" =>
        LET ps == eng.newParticles
            heap == eng.eventQueue.heap
        IN /\ \A i, j \in 1..Len(ps) : i < j => ps[i].startTime <= ps[j].startTime
           /\ \A i \in 1..Len(ps) : ps[i].startTime <= lastCall.t
           /\ \A i \in 1..Len(heap) : heap[i].fireAt > lastCall.t
           /\ \A i \in 1..Len(ps) :
                 ps[i].seq >= before[1].e.eventQueue.seqCounter =>
                    \E j \in 1..(i - 1) :
                       /\ ~ps[j].dropped /\ ps[j].protocol = ps[i].protocol
                       /\ ps[j].toNode = ps[i].fromNode
                       /\ ps[j].startTime < ps[i].startTime
           /\ Len(ps) = 1 =>
                 \A i \in EventsPushedSince(eng, before[1].e.eventQueue.seqCounter) :
                    heap[i].fireAt > ps[1].startTime

C38_Witness ==
    /\ lastCall.op = "advance" /\ before2 # None
    /\ Len(before[1].e.newParticles) > 0
    /\ Len(eng.newParticles) = 1
    /\ \E i \in EventsPushedSince(eng, before[1].e.eventQueue.seqCounter) :
          LET ev == eng.eventQueue.heap[i]
          IN /\ eng.edgeLookup[<<ev.fromNode, ev.toNode>>].latencyMs = 0
             /\ ev.protocol = "gossipsub"

====
